---- MODULE Spec2Model ----
(***************************************************************************)
(* Battery-pack simulation script src/src/4P1S.py: the post-processing of  *)
(* the raw solver output (process_simulation_output) and the pipeline      *)
(* that feeds it.                                                          *)
(*                                                                         *)
(* Numbers.  The script computes in IEEE floating point.  The model        *)
(* computes in exact rational arithmetic, a number being a pair <<n, d>>   *)
(* in lowest terms with d >= 0; d = 0 encodes the values a division by     *)
(* zero produces under numpy: <<1, 0>> is +inf, <<-1, 0>> is -inf and      *)
(* <<0, 0>> is nan.  Rounding error is not modelled.                       *)
(*                                                                         *)
(* Indices.  Python indexes from 0, TLA+ sequences from 1: the code's      *)
(* index k is position k + 1 here, and the code's None is position 0.      *)
(***************************************************************************)
EXTENDS Integers, Sequences, FiniteSets, TLC

VARIABLES
    INITIAL_SOC,        \* line 31, read from the environment at import
    NOMINAL_CAPACITY,   \* line 32, read from the environment at import
    CUT_OFF_VOLTAGE,    \* line 30, read from the environment at import
    pc,                 \* main's position: "configured" | "solved" | "processed"
    output,             \* line 328: the raw output handed to process_simulation_output
    processed,          \* line 329: what the last call of process_simulation_output did
    supplied,           \* line 39: the entries of CURRENT_TESTS_STR, split on ','
    CURRENT_TESTS,      \* lines 40-47: the dictionary of named tests, in insertion order
    DRAW_CIRCUIT,       \* line 50
    tests_done,         \* line 317: how many tests the loop of main() has completed
    all_results,        \* line 313: the dictionary of results, in insertion order
    first_netlist,      \* line 314: <<>> for None, else the current of the first test
    trace,              \* history: the calls made and exceptions raised, in order
    calls,              \* history: each call of process_simulation_output, in order
    returncode,         \* exit status of the script, -1 while it runs
    launcher,           \* "cli" | "gui": who started the script
    status_var,         \* batteryPack_gui.py line 48: the status text of the GUI
    dialog,             \* the last message box the GUI showed
    progress_window,    \* batteryPack_gui.py line 1069: the progress dialog is open
    scheduled,          \* batteryPack_gui.py lines 1129, 1132: check_process is pending
    fields,             \* the text of each entry field of the form, by name
    draw_circuit,       \* batteryPack_gui.py line 557: the draw-circuit checkbox
    current_tests,      \* batteryPack_gui.py line 422: the list of tests and their widgets
    config_file,        \* the configuration file save_configuration wrote, if any
    valid,              \* what the last call of validate_inputs returned
    reports,            \* history: how often check_process reported the end of this run
    ops                 \* history: the operations of the user and how they ended, in order

mainVars ==
    <<supplied, CURRENT_TESTS, DRAW_CIRCUIT, tests_done, all_results, first_netlist, trace,
      calls, returncode>>

formVars == <<fields, draw_circuit, current_tests, config_file, valid, reports, ops>>

guiVars == <<launcher, status_var, dialog, progress_window, scheduled, formVars>>

vars ==
    <<INITIAL_SOC, NOMINAL_CAPACITY, CUT_OFF_VOLTAGE, pc, output, processed,
      mainVars, guiVars>>

----------------------------------------------------------------------------
(* Bounds of the model.                                                    *)

\* Longest list of named tests supplied in CURRENT_TESTS.
MaxTests == 2

\* Longest time series (and table) the enumerated inputs have.
MaxLen == 3

\* Number of samples of the long constant-current discharge runs.
LongLen == 361

----------------------------------------------------------------------------
(* Float arithmetic, as exact rationals extended with inf and nan.         *)

Abs(x) == IF x < 0 THEN -x ELSE x

Sign(x) == IF x < 0 THEN -1 ELSE IF x > 0 THEN 1 ELSE 0

RECURSIVE GCD(_, _)
GCD(a, b) == IF b = 0 THEN a ELSE GCD(b, a % b)

Rat(n, d) ==
    IF d = 0 THEN <<Sign(n), 0>>
    ELSE LET g == GCD(Abs(n), Abs(d))
             s == IF d < 0 THEN -1 ELSE 1
         IN  <<(s * n) \div g, (s * d) \div g>>

NaN == <<0, 0>>

IsNaN(a) == a = NaN

RNeg(a) == <<-a[1], a[2]>>

RAdd(a, b) ==
    IF IsNaN(a) \/ IsNaN(b) THEN NaN
    ELSE IF a[2] = 0 /\ b[2] = 0 THEN (IF a = b THEN a ELSE NaN)
    ELSE IF a[2] = 0 THEN a
    ELSE IF b[2] = 0 THEN b
    ELSE Rat(a[1] * b[2] + b[1] * a[2], a[2] * b[2])

RSub(a, b) == RAdd(a, RNeg(b))

RMul(a, b) == Rat(a[1] * b[1], a[2] * b[2])

RDiv(a, b) ==
    IF b[2] # 0 /\ b[1] < 0
    THEN Rat(-(a[1] * b[2]), a[2] * (-b[1]))
    ELSE Rat(a[1] * b[2], a[2] * b[1])

RLeq(a, b) ==
    IF IsNaN(a) \/ IsNaN(b) THEN FALSE
    ELSE IF a[2] = 0 /\ b[2] = 0 THEN a[1] <= b[1]
    ELSE a[1] * b[2] <= b[1] * a[2]

Zero == Rat(0, 1)

SecondsPerHour == Rat(3600, 1)

----------------------------------------------------------------------------
(* numpy helpers used by process_simulation_output.                        *)

Min(a, b) == IF a <= b THEN a ELSE b

RECURSIVE RSum(_)
RSum(row) ==
    IF row = <<>> THEN Zero
    ELSE RAdd(RSum(SubSeq(row, 1, Len(row) - 1)), row[Len(row)])

\* np.mean(table, axis=1): one arithmetic mean per time step, over the cells.
MeanAxis1(table) ==
    [i \in 1..Len(table) |-> RDiv(RSum(table[i]), Rat(Len(table[i]), 1))]

\* np.cumsum: element i is the sum of the elements 0..i, the first included.
\* The sum is exact, so it is taken by halves (the prefix sums of the left
\* half, then those of the right half shifted by the left total) to keep the
\* evaluation shallow on long series.
RECURSIVE CumSum(_)
CumSum(s) ==
    IF Len(s) <= 1 THEN s
    ELSE LET h     == Len(s) \div 2
             left  == CumSum(SubSeq(s, 1, h))
             right == CumSum(SubSeq(s, h + 1, Len(s)))
         IN  left \o [i \in 1..Len(right) |-> RAdd(left[h], right[i])]

\* np.where(cond)[0] and its first element: the first position at which the
\* boolean array cond is true, 0 (the code's "no index") when it is nowhere.
FirstTrue(cond) ==
    LET hits == {i \in 1..Len(cond) : cond[i]}
    IN  IF hits = {} THEN 0
        ELSE CHOOSE i \in hits : \A j \in hits : i <= j

\* A plausible slip: the slice stops before the cutoff sample, a[:cutoff_idx].
SliceExclusive(a, p) == SubSeq(a, 1, Min(p - 1, Len(a)))

\* a[:cutoff_idx+1], with p = cutoff_idx + 1; Python clamps the slice to len(a).
Slice(a, p) == SubSeq(a, 1, Min(p, Len(a)))

\* A plausible slip: the slice is taken without the "is not None" guard.
TruncatedUnguarded(a, p) == Slice(a, p)

\* Lines 205-219: an array is sliced only when a cutoff was found.
Truncated(a, p) == IF p # 0 THEN Slice(a, p) ELSE a

----------------------------------------------------------------------------
(* process_simulation_output, stage by stage.                              *)

\* Line 178.
DeltaT(time) == RSub(time[2], time[1])

\* A plausible slip: each step is weighted by its own gap to the previous
\* sample (the first by the first gap) instead of the first gap throughout.
CapacityPerStepGap(time, current_avg) ==
    LET gap(i) == IF i = 1 \/ i > Len(time) THEN DeltaT(time)
                  ELSE RSub(time[i], time[i - 1])
        total == CumSum([i \in 1..Len(current_avg) |-> RMul(current_avg[i], gap(i))])
    IN  [i \in 1..Len(current_avg) |-> RDiv(total[i], SecondsPerHour)]

\* A plausible slip: the running total starts before the first sample, so
\* that sample i holds the charge drawn up to, not including, step i.
CapacityFromZero(time, current_avg) ==
    LET total == CumSum([i \in 1..Len(current_avg) |->
                            RMul(current_avg[i], DeltaT(time))])
    IN  [i \in 1..Len(current_avg) |->
            IF i = 1 THEN Zero ELSE RDiv(total[i - 1], SecondsPerHour)]

\* A plausible slip: the running total is kept between calls, so a call
\* starts from the last capacity of the call before it.
CapacityCarriedOver(time, current_avg) ==
    LET before == processed.ret.capacity_Ah
        start  == IF before = <<>> THEN Zero ELSE before[Len(before)]
        sums   == CumSum(current_avg)
    IN  [k \in 1..Len(sums) |->
            RAdd(start, RDiv(RMul(sums[k], DeltaT(time)), SecondsPerHour))]

\* Line 179: np.cumsum(current_avg * delta_t) / 3600.
CapacityAh(time, current_avg) ==
    LET total == CumSum([i \in 1..Len(current_avg) |->
                            RMul(current_avg[i], DeltaT(time))])
    IN  [i \in 1..Len(current_avg) |-> RDiv(total[i], SecondsPerHour)]

\* A plausible slip: the discharged capacity is not divided by the nominal one.
SoCNotNormalised(capacity_Ah) ==
    [i \in 1..Len(capacity_Ah) |-> RSub(INITIAL_SOC, capacity_Ah[i])]

\* A plausible slip: the drawn charge is added to the initial SoC.
SoCSignFlipped(capacity_Ah) ==
    [i \in 1..Len(capacity_Ah) |->
        RAdd(INITIAL_SOC, RDiv(capacity_Ah[i], NOMINAL_CAPACITY))]

\* Line 182: INITIAL_SOC - capacity_Ah / NOMINAL_CAPACITY (numpy division:
\* a zero divisor gives inf or nan, not an exception).
SoCSeries(capacity_Ah) ==
    [i \in 1..Len(capacity_Ah) |->
        RSub(INITIAL_SOC, RDiv(capacity_Ah[i], NOMINAL_CAPACITY))]

\* A plausible slip: the voltage condition is tested with < instead of <=.
VoltageCutoffIdxStrict(voltage_avg) ==
    FirstTrue([i \in 1..Len(voltage_avg) |->
                  RLeq(voltage_avg[i], CUT_OFF_VOLTAGE)
                  /\ voltage_avg[i] # CUT_OFF_VOLTAGE])

\* Lines 188-191.
VoltageCutoffIdx(voltage_avg) ==
    FirstTrue([i \in 1..Len(voltage_avg) |-> RLeq(voltage_avg[i], CUT_OFF_VOLTAGE)])

\* Lines 195-197.
SocCutoffIdx(SoC) == FirstTrue([i \in 1..Len(SoC) |-> RLeq(SoC[i], Zero)])

\* Line 200: the SoC index replaces the voltage one.
SocGoverns(vidx, sidx) == sidx # 0 /\ (vidx = 0 \/ sidx < vidx)

\* A plausible slip: the later of the two cutoffs is taken.
CutoffIdxLatest(vidx, sidx) ==
    IF sidx # 0 /\ (vidx = 0 \/ sidx > vidx) THEN sidx ELSE vidx

\* Lines 185-202: cutoff_idx (0 for None).
CutoffIdx(vidx, sidx) == IF SocGoverns(vidx, sidx) THEN sidx ELSE vidx

\* A plausible slip: line 202 is missing, the voltage reason is not replaced.
CutoffReasonNotReplaced(vidx, sidx) ==
    IF vidx # 0 THEN "voltage"
    ELSE IF sidx # 0 THEN "soc"
    ELSE "none"

\* A plausible slip: line 200 compares with <=, the SoC reason wins a tie.
CutoffReasonSocOnTie(vidx, sidx) ==
    IF sidx # 0 /\ (vidx = 0 \/ sidx <= vidx) THEN "soc"
    ELSE IF vidx # 0 THEN "voltage"
    ELSE "none"

\* Lines 192, 202, 206: which cutoff_reason is logged.
CutoffReason(vidx, sidx) ==
    IF SocGoverns(vidx, sidx) THEN "soc"
    ELSE IF vidx # 0 THEN "voltage"
    ELSE "none"

EmptyDict ==
    [time |-> <<>>, current |-> <<>>, voltage |-> <<>>, temperature |-> <<>>,
     heating |-> <<>>, current_avg |-> <<>>, voltage_avg |-> <<>>,
     temperature_avg |-> <<>>, heating_avg |-> <<>>, capacity_Ah |-> <<>>,
     SoC |-> <<>>]

\* A plausible slip: one array (SoC) is left out of the truncation.
ReturnedDictSoCUncut(out, p) ==
    LET current_avg == MeanAxis1(out.current)
        capacity_Ah == CapacityAh(out.time, current_avg)
    IN  [time            |-> Truncated(out.time, p),
         current         |-> Truncated(out.current, p),
         voltage         |-> Truncated(out.voltage, p),
         temperature     |-> Truncated(out.temperature, p),
         heating         |-> Truncated(out.heating, p),
         current_avg     |-> Truncated(current_avg, p),
         voltage_avg     |-> Truncated(MeanAxis1(out.voltage), p),
         temperature_avg |-> Truncated(MeanAxis1(out.temperature), p),
         heating_avg     |-> Truncated(MeanAxis1(out.heating), p),
         capacity_Ah     |-> Truncated(capacity_Ah, p),
         SoC             |-> SoCSeries(capacity_Ah)]

\* Lines 204-235: the dictionary returned for cutoff position p.
ReturnedDict(out, p) ==
    LET current_avg == MeanAxis1(out.current)
        capacity_Ah == CapacityAh(out.time, current_avg)
    IN  [time            |-> Truncated(out.time, p),
         current         |-> Truncated(out.current, p),
         voltage         |-> Truncated(out.voltage, p),
         temperature     |-> Truncated(out.temperature, p),
         heating         |-> Truncated(out.heating, p),
         current_avg     |-> Truncated(current_avg, p),
         voltage_avg     |-> Truncated(MeanAxis1(out.voltage), p),
         temperature_avg |-> Truncated(MeanAxis1(out.temperature), p),
         heating_avg     |-> Truncated(MeanAxis1(out.heating), p),
         capacity_Ah     |-> Truncated(capacity_Ah, p),
         SoC             |-> Truncated(SoCSeries(capacity_Ah), p)]

\* A plausible slip: the arrays of the input dictionary are cut in place.
OutputCutInPlace(out) ==
    LET capacity_Ah == CapacityAh(out.time, MeanAxis1(out.current))
        p == CutoffIdx(VoltageCutoffIdx(MeanAxis1(out.voltage)),
                       SocCutoffIdx(SoCSeries(capacity_Ah)))
    IN  IF Len(out.time) < 2 THEN out
        ELSE [time        |-> Truncated(out.time, p),
              current     |-> Truncated(out.current, p),
              voltage     |-> Truncated(out.voltage, p),
              temperature |-> Truncated(out.temperature, p),
              heating     |-> Truncated(out.heating, p)]

\* Lines 165-169 and 209-213: the function reads the arrays of the input
\* dictionary into locals and rebinds the locals to slices; it assigns to no
\* key and to no element of the dictionary, which is after the call what it
\* was before.
OutputAfterCall(out) == out

\* What a call that raises leaves behind: the exception, the stages that ran
\* before it, nothing logged, nothing returned.
Raised(exc, steps) ==
    [raised |-> exc, steps |-> steps, reason |-> "none", ret |-> EmptyDict]

\* process_simulation_output(output), lines 150-235.  "steps" lists the
\* stages carried out, in order; "reason" is the cutoff reason logged at
\* line 206.  time[1] (line 178) and time[cutoff_idx] (lines 192, 202) raise
\* IndexError when the index is outside time.
ProcessSimulationOutputResult(out) ==
    IF Len(out.time) < 2
    THEN Raised("IndexError", <<"mean">>)
    ELSE
    LET current_avg == MeanAxis1(out.current)
        voltage_avg == MeanAxis1(out.voltage)
        capacity_Ah == CapacityAh(out.time, current_avg)
        SoC         == SoCSeries(capacity_Ah)
        vidx        == VoltageCutoffIdx(voltage_avg)
        sidx        == SocCutoffIdx(SoC)
        p           == CutoffIdx(vidx, sidx)
    IN  IF vidx > Len(out.time)
        THEN Raised("IndexError", <<"mean", "integrate", "soc">>)
        ELSE IF SocGoverns(vidx, sidx) /\ sidx > Len(out.time)
        THEN Raised("IndexError", <<"mean", "integrate", "soc">>)
        ELSE [raised |-> "none",
              steps  |-> <<"mean", "integrate", "soc", "cutoff">>
                         \o (IF p # 0 THEN <<"truncate">> ELSE <<>>),
              reason |-> CutoffReason(vidx, sidx),
              ret    |-> ReturnedDict(out, p)]

----------------------------------------------------------------------------
(* The inputs the model enumerates.                                        *)

\* Gaps between consecutive time samples, in seconds.
TimeGaps == {1800, 3600}

\* Per-cell currents of one time step (two cells), in A.
CurrentRows == {<<Rat(4, 1), Rat(6, 1)>>, <<Rat(-1, 1), Rat(0, 1)>>}

\* Per-cell terminal voltages of one time step, in V.
VoltageRows == {<<Rat(4, 1), Rat(4, 1)>>, <<Rat(7, 2), Rat(5, 2)>>}

\* Time series of n samples starting at 0 with gaps from TimeGaps.
RECURSIVE TimeGrids(_)
TimeGrids(n) ==
    IF n = 0 THEN {<<>>}
    ELSE IF n = 1 THEN {<<Zero>>}
    ELSE {Append(t, RAdd(t[n - 1], Rat(g, 1))) : t \in TimeGrids(n - 1), g \in TimeGaps}

\* Tables of n time steps with rows from a set.
Tables(rows, n) == [1..n -> rows]

TemperatureTable(n) == [i \in 1..n |-> <<Rat(293 + i, 1), Rat(295 + i, 1)>>]

HeatingTable(n) == [i \in 1..n |-> <<Rat(10 * i, 1), Rat(30 * i, 1)>>]

\* Raw outputs as the solver returns them, of at most maxLen samples: every
\* table has one row per time sample and there are at least two samples.
SolverOutputs(maxLen) ==
    UNION {{[time |-> t, current |-> c, voltage |-> v,
             temperature |-> TemperatureTable(n), heating |-> HeatingTable(n)] :
                t \in TimeGrids(n), c \in Tables(CurrentRows, n),
                v \in Tables(VoltageRows, n)} : n \in 2..maxLen}

NoOutput ==
    [time |-> <<>>, current |-> <<>>, voltage |-> <<>>, temperature |-> <<>>,
     heating |-> <<>>]

NotCalled == Raised("none", <<>>)

\* str.strip(): drop the leading and trailing blanks.
RECURSIVE LStrip(_)
LStrip(text) ==
    IF text # <<>> /\ Head(text) = " " THEN LStrip(Tail(text)) ELSE text

RECURSIVE RStrip(_)
RStrip(text) ==
    IF text # <<>> /\ text[Len(text)] = " "
    THEN RStrip(SubSeq(text, 1, Len(text) - 1))
    ELSE text

Strip(text) == RStrip(LStrip(text))

\* The decimal digits of a natural number.
Digit(n) == CASE n = 0 -> "0" [] n = 1 -> "1" [] n = 2 -> "2" [] n = 3 -> "3"
              [] n = 4 -> "4" [] n = 5 -> "5" [] n = 6 -> "6" [] n = 7 -> "7"
              [] n = 8 -> "8" [] n = 9 -> "9"

RECURSIVE Digits(_)
Digits(n) == IF n < 10 THEN <<Digit(n)>> ELSE Digits(n \div 10) \o <<Digit(n % 10)>>

\* The digits after the decimal point of rem/d, for a fraction that ends.
RECURSIVE FractionDigits(_, _)
FractionDigits(rem, d) ==
    IF rem = 0 THEN <<>>
    ELSE <<Digit((rem * 10) \div d)>> \o FractionDigits((rem * 10) % d, d)

\* str(x) of a float x: "7.5", "15.0", "-2.0", "nan", "inf".
FloatStr(x) ==
    IF IsNaN(x) THEN <<"n", "a", "n">>
    ELSE IF x[2] = 0
    THEN (IF x[1] < 0 THEN <<"-">> ELSE <<>>) \o <<"i", "n", "f">>
    ELSE LET whole == Abs(x[1]) \div x[2]
             rem   == Abs(x[1]) % x[2]
         IN  (IF x[1] < 0 THEN <<"-">> ELSE <<>>) \o Digits(whole) \o <<".">>
                \o (IF rem = 0 THEN <<"0">> ELSE FractionDigits(rem, x[2]))

\* str(n) of an int n.
IntStr(n) == (IF n < 0 THEN <<"-">> ELSE <<>>) \o Digits(Abs(n))

\* str(x) of a number: an int prints its digits, a float as FloatStr.
NumStr(x) == IF x.int THEN IntStr(x.value[1]) ELSE FloatStr(x.value)

\* The status line: a fixed text and, where the code formats one in, a name.
Status(text, arg) == [text |-> text, arg |-> arg]

\* A number as Python and JSON hold it: an int or a float.
IntNum(n) == [int |-> TRUE, value |-> <<n, 1>>]

FloatNum(n, d) == [int |-> FALSE, value |-> Rat(n, d)]

\* batteryPack_gui.py lines 202-332, 456, 487, 576-608: the entry fields and
\* the text they show after construction.
FieldDefaults ==
    [num_parallel          |-> <<"3">>,
     num_series            |-> <<"4">>,
     initial_voltage       |-> <<"4", ".", "0">>,
     cut_off_voltage       |-> <<"2", ".", "5">>,
     initial_soc           |-> <<"1", ".", "0">>,
     nominal_capacity      |-> <<"5", ".", "0">>,
     ambient_temp          |-> <<"4", "0", ".", "0">>,
     busbar_resistance     |-> <<"0", ".", "0", "0", "1">>,
     connection_resistance |-> <<"0", ".", "0", "1">>,
     internal_resistance   |-> <<"0", ".", "0", "5">>,
     experiment_period     |-> <<"1", "0", " ", "s", "e", "c", "o", "n", "d">>,
     experiment_time       |-> <<"1", "5", "0", "0", "0">>,
     circuit_dpi           |-> <<"1", "2", "0", "0">>,
     circuit_cpt_size      |-> <<"1", ".", "0">>,
     circuit_node_spacing  |-> <<"2", ".", "5">>]

FieldNames == DOMAIN FieldDefaults

\* batteryPack_gui.py lines 422-426: the tests a new form starts with.
DefaultTests ==
    <<[name |-> <<"0", ".", "5", "C">>, current |-> FloatNum(15, 2)],
      [name |-> <<"1", "C">>, current |-> FloatNum(15, 1)],
      [name |-> <<"2", "C">>, current |-> FloatNum(30, 1)]>>

\* No configuration file has been written.
NoFile ==
    [exists |-> FALSE, present |-> {},
     numbers |-> [name \in FieldNames \ {"experiment_period"} |-> IntNum(0)],
     period |-> <<>>,
     draw |-> FALSE, tests |-> <<>>]

\* batteryPack_gui.py lines 727-757, update_current_tests_ui: every row gets
\* new widgets showing the stored name and str() of the stored current; what
\* was typed into the old widgets is gone.
UpdateCurrentTestsUi(tests) ==
    [k \in 1..Len(tests) |->
        [name |-> tests[k].name, current |-> tests[k].current,
         name_var |-> tests[k].name, current_var |-> NumStr(tests[k].current)]]

\* The form after __init__ (batteryPack_gui.py lines 14-61).
FormConstructed ==
    /\ fields = FieldDefaults
    /\ draw_circuit = FALSE
    /\ current_tests = UpdateCurrentTestsUi(DefaultTests)
    /\ config_file = NoFile
    /\ valid = "none"
    /\ reports = 0
    /\ ops = <<>>

\* No message box has been shown.
NoDialog == [title |-> "none", message |-> "none", code |-> -1]

\* The script's loop and the GUI, before anything has run: the post-processor
\* is exercised on its own.
OrchestrationIdle ==
    /\ supplied = <<>>
    /\ CURRENT_TESTS = <<>>
    /\ DRAW_CIRCUIT = FALSE
    /\ tests_done = 0
    /\ all_results = <<>>
    /\ first_netlist = <<>>
    /\ trace = <<>>
    /\ calls = <<>>
    /\ returncode = -1
    /\ launcher = "cli"
    /\ status_var = Status("Ready", <<>>)
    /\ dialog = NoDialog
    /\ FormConstructed
    /\ progress_window = FALSE
    /\ scheduled = FALSE

----------------------------------------------------------------------------
(* The pipeline of main(): configure, solve, post-process, next test.      *)

\* Lines 30-32: the constants are read from the environment at import.
Init ==
    /\ INITIAL_SOC \in {Rat(1, 1), Rat(1, 2)}
    /\ NOMINAL_CAPACITY \in {Rat(5, 1), Rat(10, 1)}
    /\ CUT_OFF_VOLTAGE \in {Rat(3, 1), Rat(5, 2)}
    /\ pc = "configured"
    /\ output = NoOutput
    /\ processed = NotCalled
    /\ OrchestrationIdle

\* run_simulation: lp.solve returns the raw output of one test.
RunSimulation ==
    /\ pc = "configured"
    /\ output' \in SolverOutputs(MaxLen)
    /\ pc' = "solved"
    /\ UNCHANGED <<INITIAL_SOC, NOMINAL_CAPACITY, CUT_OFF_VOLTAGE, processed, mainVars, guiVars>>

\* process_simulation_output(output), as one step.
ProcessSimulationOutput ==
    /\ pc = "solved"
    /\ processed' = ProcessSimulationOutputResult(output)
    /\ output' = OutputAfterCall(output)
    /\ pc' = "processed"
    /\ UNCHANGED <<INITIAL_SOC, NOMINAL_CAPACITY, CUT_OFF_VOLTAGE, mainVars, guiVars>>

\* The loop of main() moves on to the next test.
NextTest ==
    /\ pc = "processed"
    /\ pc' = "configured"
    /\ output' = NoOutput
    /\ processed' = NotCalled
    /\ UNCHANGED <<INITIAL_SOC, NOMINAL_CAPACITY, CUT_OFF_VOLTAGE, mainVars, guiVars>>

Next == RunSimulation \/ ProcessSimulationOutput \/ NextTest

Spec == Init /\ [][Next]_vars

----------------------------------------------------------------------------
(* process_simulation_output called directly, on any arrays and under any  *)
(* nominal capacity: the tables need not match the time series.            *)

\* Time series of n samples on the uniform grid of the first gap.
UniformGrid(n, gap) == [i \in 1..n |-> Rat((i - 1) * gap, 1)]

\* Dictionaries whose time series and tables have up to maxLen rows each.
AnyOutputs(maxLen) ==
    {[time |-> UniformGrid(n[1], 1800), current |-> c, voltage |-> v,
      temperature |-> TemperatureTable(n[2]), heating |-> HeatingTable(n[3])] :
        n \in (0..maxLen) \X (0..maxLen) \X (0..maxLen),
        c \in UNION {Tables(CurrentRows, k) : k \in 0..maxLen},
        v \in UNION {Tables(VoltageRows, k) : k \in 0..maxLen}}

\* Line 32 with any NOMINAL_CAPACITY in the environment, zero and negative
\* included.
InitAny ==
    /\ INITIAL_SOC = Rat(1, 1)
    /\ NOMINAL_CAPACITY \in {Rat(5, 1), Rat(0, 1), Rat(-5, 1)}
    /\ CUT_OFF_VOLTAGE = Rat(3, 1)
    /\ pc = "configured"
    /\ output = NoOutput
    /\ processed = NotCalled
    /\ OrchestrationIdle

\* A caller hands process_simulation_output a dictionary of its own.
CallWithAnyOutput ==
    /\ pc = "configured"
    /\ output' \in AnyOutputs(MaxLen)
    /\ pc' = "solved"
    /\ UNCHANGED <<INITIAL_SOC, NOMINAL_CAPACITY, CUT_OFF_VOLTAGE, processed, mainVars, guiVars>>

NextAny == CallWithAnyOutput \/ ProcessSimulationOutput \/ NextTest

SpecAny == InitAny /\ [][NextAny]_vars

----------------------------------------------------------------------------
(* Constant-current discharges on a uniform grid: short runs of four       *)
(* samples under any voltages, and long runs whose voltage drops under the *)
(* cutoff at any one sample or never.                                      *)

ConstantTable(n, x) == [i \in 1..n |-> <<x, x>>]

\* Average voltages of the short runs, in V.
ShortVoltages == {Rat(4, 1), Rat(7, 2), Rat(16, 5), Rat(29, 10)}

ShortDischarges ==
    {[time |-> UniformGrid(4, dt), current |-> ConstantTable(4, Rat(I, 1)),
      voltage |-> [i \in 1..4 |-> <<v[i], v[i]>>],
      temperature |-> TemperatureTable(4), heating |-> HeatingTable(4)] :
        dt \in {10, 20}, I \in {5, 3}, v \in [1..4 -> ShortVoltages]}

\* Runs of n samples at 5 A on the 10 s grid: 4.0 V up to sample "drop",
\* 2.9 V from there on (never, for drop > n).
LongDischarges(n) ==
    {[time |-> UniformGrid(n, 10), current |-> ConstantTable(n, Rat(5, 1)),
      voltage |-> [i \in 1..n |->
                     IF i < drop THEN <<Rat(4, 1), Rat(4, 1)>>
                     ELSE <<Rat(29, 10), Rat(29, 10)>>],
      temperature |-> TemperatureTable(n), heating |-> HeatingTable(n)] :
        drop \in 1..(n + 1)}

InitDischarge ==
    /\ INITIAL_SOC = Rat(1, 1)
    /\ NOMINAL_CAPACITY = Rat(5, 1)
    /\ CUT_OFF_VOLTAGE = Rat(3, 1)
    /\ pc = "configured"
    /\ output = NoOutput
    /\ processed = NotCalled
    /\ OrchestrationIdle

RunShortDischarge ==
    /\ pc = "configured"
    /\ output' \in ShortDischarges
    /\ pc' = "solved"
    /\ UNCHANGED <<INITIAL_SOC, NOMINAL_CAPACITY, CUT_OFF_VOLTAGE, processed, mainVars, guiVars>>

RunLongDischarge ==
    /\ pc = "configured"
    /\ output' \in LongDischarges(LongLen)
    /\ pc' = "solved"
    /\ UNCHANGED <<INITIAL_SOC, NOMINAL_CAPACITY, CUT_OFF_VOLTAGE, processed, mainVars, guiVars>>

NextDischarge ==
    RunShortDischarge \/ RunLongDischarge \/ ProcessSimulationOutput \/ NextTest

SpecDischarge == InitDischarge /\ [][NextDischarge]_vars

----------------------------------------------------------------------------
(* Vocabulary of the properties.                                           *)

\* A call of process_simulation_output has returned a dictionary.
Returned == pc = "processed" /\ processed.raised = "none"

ret == processed.ret

\* The first-dimension lengths of the eleven returned series.
SeriesLengths(r) ==
    {Len(r.time), Len(r.current), Len(r.voltage), Len(r.temperature),
     Len(r.heating), Len(r.current_avg), Len(r.voltage_avg),
     Len(r.temperature_avg), Len(r.heating_avg), Len(r.capacity_Ah), Len(r.SoC)}

\* The eleven series before truncation.
Untruncated ==
    LET current_avg == MeanAxis1(output.current)
        capacity_Ah == CapacityAh(output.time, current_avg)
    IN  [time            |-> output.time,
         current         |-> output.current,
         voltage         |-> output.voltage,
         temperature     |-> output.temperature,
         heating         |-> output.heating,
         current_avg     |-> current_avg,
         voltage_avg     |-> MeanAxis1(output.voltage),
         temperature_avg |-> MeanAxis1(output.temperature),
         heating_avg     |-> MeanAxis1(output.heating),
         capacity_Ah     |-> capacity_Ah,
         SoC             |-> SoCSeries(capacity_Ah)]

SeriesNames ==
    {"time", "current", "voltage", "temperature", "heating", "current_avg",
     "voltage_avg", "temperature_avg", "heating_avg", "capacity_Ah", "SoC"}

\* Every table has one row per time sample.
TablesMatchTime(out) ==
    /\ Len(out.current) = Len(out.time)
    /\ Len(out.voltage) = Len(out.time)
    /\ Len(out.temperature) = Len(out.time)
    /\ Len(out.heating) = Len(out.time)

\* a < b on floats.
RLt(a, b) == RLeq(a, b) /\ a # b

\* The positions at which the voltage condition or the SoC condition holds
\* in the untruncated series u.
VoltageHits(u) ==
    {k \in 1..Len(u.voltage_avg) : RLeq(u.voltage_avg[k], CUT_OFF_VOLTAGE)}

SocHits(u) == {k \in 1..Len(u.SoC) : RLeq(u.SoC[k], Zero)}

CutoffHits(u) == VoltageHits(u) \cup SocHits(u)

Least(S) == CHOOSE k \in S : \A j \in S : k <= j

----------------------------------------------------------------------------
(* Properties of process_simulation_output on the solver's outputs (Spec). *)

\* C1: the truncation point is the smallest index at which the voltage
\* condition or the SoC condition holds, and every returned series then has
\* exactly that index plus one elements (here: the position itself).
C1_TruncatesAtEarliestCutoff ==
    pc = "processed" =>
        LET hits == CutoffHits(Untruncated)
        IN  hits # {} =>
                /\ processed.raised = "none"
                /\ SeriesLengths(ret) = {Least(hits)}

\* C1 witness: both conditions hold somewhere, the SoC one first, and the
\* call has cut the series short of the input.
C1_Witness ==
    /\ Returned
    /\ LET u == Untruncated
           vhits == VoltageHits(u)
           shits == SocHits(u)
       IN  /\ vhits # {} /\ shits # {}
           /\ Least(shits) < Least(vhits)
           /\ Len(ret.time) = Least(shits)
           /\ Len(ret.time) < Len(output.time)

\* C2: every returned result has its eleven series of one and the same
\* first-dimension length, with or without a cutoff.
C2_SeriesShareLength == Returned => Cardinality(SeriesLengths(ret)) = 1

\* C2 witness: a result that was truncated.
C2_Witness ==
    /\ Returned
    /\ processed.reason # "none"
    /\ 1 < Len(ret.time) /\ Len(ret.time) < Len(output.time)

\* C3: when the average voltage stays strictly above the cutoff and the SoC
\* strictly above 0 at every sample, the call does not fail and returns every
\* series with the length of the input time.
C3_NoCutoffNoTruncation ==
    pc = "processed" =>
        LET u == Untruncated
        IN  (/\ \A k \in 1..Len(u.voltage_avg) : RLt(CUT_OFF_VOLTAGE, u.voltage_avg[k])
             /\ \A k \in 1..Len(u.SoC) : RLt(Zero, u.SoC[k]))
            => /\ processed.raised = "none"
               /\ SeriesLengths(ret) = {Len(output.time)}

\* C3 witness: a call on three or more samples that found no cutoff.
C3_Witness ==
    /\ Returned
    /\ CutoffHits(Untruncated) = {}
    /\ Len(output.time) >= 3
    /\ Len(ret.SoC) = Len(output.time)

\* C4: when a cutoff index is found, each returned series is the first
\* index-plus-one entries of the untruncated series, values unchanged: the
\* cutoff sample is kept, nothing after it.
C4_TruncationKeepsPrefix ==
    Returned =>
        LET u == Untruncated
            hits == CutoffHits(u)
        IN  hits # {} =>
                \A name \in SeriesNames :
                    ret[name] = SubSeq(u[name], 1, Least(hits))

\* C4 witness: a cutoff strictly inside the input, after the first sample.
C4_Witness ==
    /\ Returned
    /\ LET hits == CutoffHits(Untruncated)
       IN  /\ hits # {}
           /\ 1 < Least(hits) /\ Least(hits) < Len(output.time)
           /\ ret.voltage[Len(ret.voltage)] = output.voltage[Least(hits)]

\* C8: capacity_Ah[i] = (current_avg[0] + ... + current_avg[i]) * (time[1] -
\* time[0]) / 3600 for every index of the result: the first interval is
\* applied to every step, whatever the later gaps are.
C8_CapacityUsesFirstInterval ==
    Returned =>
        \A i \in 1..Len(ret.capacity_Ah) :
            ret.capacity_Ah[i] =
                RDiv(RMul(RSum(SubSeq(ret.current_avg, 1, i)),
                          RSub(output.time[2], output.time[1])),
                     Rat(3600, 1))

\* C8 witness: a result of three samples on a grid whose second gap differs
\* from the first, with current flowing at the third sample.
C8_Witness ==
    /\ Returned
    /\ Len(ret.capacity_Ah) >= 3
    /\ RSub(output.time[3], output.time[2]) # RSub(output.time[2], output.time[1])
    /\ ret.current_avg[3] # Zero

\* C9: SoC[i] = INITIAL_SOC - capacity_Ah[i] / NOMINAL_CAPACITY at every
\* index of the result.
C9_SoCFromCapacity ==
    Returned =>
        /\ Len(ret.SoC) = Len(ret.capacity_Ah)
        /\ \A i \in 1..Len(ret.SoC) :
               ret.SoC[i] =
                   RSub(INITIAL_SOC, RDiv(ret.capacity_Ah[i], NOMINAL_CAPACITY))

\* C9 witness: a result of two or more samples with charge drawn.
C9_Witness ==
    /\ Returned
    /\ Len(ret.SoC) >= 2
    /\ ret.capacity_Ah[2] # Zero
    /\ ret.SoC[2] # INITIAL_SOC

\* C11: when current_avg is non-negative at every sample, the returned
\* capacity_Ah is non-decreasing and the returned SoC is non-increasing over
\* the indices of the result.
C11_MonotoneUnderDischarge ==
    Returned =>
        LET current_avg == MeanAxis1(output.current)
        IN  (\A i \in 1..Len(current_avg) : RLeq(Zero, current_avg[i])) =>
                \A i \in 2..Len(ret.capacity_Ah) :
                    /\ RLeq(ret.capacity_Ah[i - 1], ret.capacity_Ah[i])
                    /\ RLeq(ret.SoC[i], ret.SoC[i - 1])

\* C11 witness: a discharge of three samples whose capacity has grown and
\* whose SoC has fallen.
C11_Witness ==
    /\ Returned
    /\ \A i \in 1..Len(output.current) : RLeq(Zero, MeanAxis1(output.current)[i])
    /\ Len(ret.SoC) >= 3
    /\ RLt(ret.capacity_Ah[1], ret.capacity_Ah[3])
    /\ RLt(ret.SoC[3], ret.SoC[1])

\* C12: when a cutoff is found exactly one reason is logged, the one of the
\* condition that first holds at the smaller index; when none is found no
\* reason is logged.
C12_ReasonNamesEarlierCondition ==
    Returned =>
        LET u  == Untruncated
            vh == VoltageHits(u)
            sh == SocHits(u)
        IN  /\ (vh = {} /\ sh = {}) => processed.reason = "none"
            /\ (vh # {} \/ sh # {}) => processed.reason \in {"voltage", "soc"}
            /\ (vh # {} /\ (sh = {} \/ Least(vh) < Least(sh))) =>
                   processed.reason = "voltage"
            /\ (sh # {} /\ (vh = {} \/ Least(sh) < Least(vh))) =>
                   processed.reason = "soc"

\* C12 witness: both conditions hold somewhere, the SoC one first and the
\* voltage one later, and the SoC reason was logged.
C12_Witness ==
    /\ Returned
    /\ processed.reason = "soc"
    /\ LET u == Untruncated
       IN  /\ VoltageHits(u) # {} /\ SocHits(u) # {}
           /\ Least(SocHits(u)) < Least(VoltageHits(u))
           /\ Least(VoltageHits(u)) = Len(output.time)

\* C13: when both conditions first hold at the same index, the logged reason
\* is the voltage cutoff.
C13_TieGoesToVoltage ==
    Returned =>
        LET u  == Untruncated
            vh == VoltageHits(u)
            sh == SocHits(u)
        IN  (vh # {} /\ sh # {} /\ Least(vh) = Least(sh)) =>
                processed.reason = "voltage"

\* C13 witness: a tie at the second sample.
C13_Witness ==
    /\ Returned
    /\ processed.reason = "voltage"
    /\ LET u == Untruncated
       IN  /\ VoltageHits(u) # {} /\ SocHits(u) # {}
           /\ Least(VoltageHits(u)) = 2 /\ Least(SocHits(u)) = 2

C27_OnlyLastSampleCanCut ==
    Returned =>
        /\ \A n \in SeriesLengths(ret) : 1 <= n /\ n <= Len(output.time)
        /\ \A k \in 1..(Len(ret.voltage_avg) - 1) :
                RLt(CUT_OFF_VOLTAGE, ret.voltage_avg[k])
        /\ \A k \in 1..(Len(ret.SoC) - 1) : RLt(Zero, ret.SoC[k])

\* C27 witness: a result cut at its third sample, where the average voltage
\* is exactly the cutoff voltage.
C27_Witness ==
    /\ Returned
    /\ Len(ret.time) = 3
    /\ ret.voltage_avg[3] = CUT_OFF_VOLTAGE
    /\ RLt(Zero, ret.SoC[3])


----------------------------------------------------------------------------
(* process_simulation_output on arbitrary arrays and constants (SpecAny).  *)

\* C5: a call with a time series of fewer than 2 points fails with an
\* InvalidInput error that is detected before any computation (averaging,
\* integration) is performed; stated for tables that match the time series
\* and a positive nominal capacity.
C5_ShortTimeRejectedBeforeComputation ==
    (/\ pc = "processed"
     /\ Len(output.time) < 2
     /\ TablesMatchTime(output)
     /\ RLt(Zero, NOMINAL_CAPACITY))
    =>
        /\ processed.raised # "none"
        /\ processed.raised = "InvalidInput"
        /\ processed.steps = <<>>

\* C6: a call under a nominal capacity <= 0 (0 in particular) fails with an
\* error and returns no result; stated for arrays that are otherwise valid.
C6_NonPositiveCapacityRejected ==
    (/\ pc = "processed"
     /\ RLeq(NOMINAL_CAPACITY, Zero)
     /\ Len(output.time) >= 2
     /\ TablesMatchTime(output))
    => processed.raised # "none"

\* C7: a call with a table whose first dimension differs from len(time)
\* fails with an error instead of returning a result; stated for time series
\* of two or more samples and a positive nominal capacity.
C7_MismatchedTableRejected ==
    (/\ pc = "processed"
     /\ Len(output.time) >= 2
     /\ RLt(Zero, NOMINAL_CAPACITY)
     /\ ~TablesMatchTime(output))
    => processed.raised # "none"

----------------------------------------------------------------------------
(* Constant-current discharges (SpecDischarge).                            *)

IsConstant(s) == \A i \in 1..Len(s) : s[i] = s[1]

IsUniform(time) ==
    \A i \in 2..Len(time) : RSub(time[i], time[i - 1]) = RSub(time[2], time[1])

\* C10: with constant current_avg = I on a uniform grid of step dt,
\* capacity_Ah[i] = I*dt*(i+1)/3600 at every index i (position i+1 here);
\* for I = 5, dt = 10, initial SoC 1 and nominal capacity 5 the 360th sample
\* has capacity 5 Ah and SoC 0 whatever the voltages are, in the series as
\* computed and in the result when it reaches that far (it never reaches
\* further); for time = [0,10,20,30], voltage_avg = [4.0,3.5,3.2,2.9] and
\* cutoff 3.0 the result has length 4 with capacity_Ah[3] = 200/3600.
C10_ConstantCurrentCapacity ==
    Returned =>
        LET u  == Untruncated
            I  == u.current_avg[1]
            dt == RSub(output.time[2], output.time[1])
        IN  (IsConstant(u.current_avg) /\ IsUniform(output.time)) =>
            /\ \A i \in 1..Len(ret.capacity_Ah) :
                   ret.capacity_Ah[i] =
                       RDiv(RMul(RMul(I, dt), Rat(i, 1)), Rat(3600, 1))
            /\ (/\ I = Rat(5, 1) /\ dt = Rat(10, 1)
                /\ INITIAL_SOC = Rat(1, 1) /\ NOMINAL_CAPACITY = Rat(5, 1)
                /\ Len(output.time) >= 360)
               => /\ u.capacity_Ah[360] = Rat(5, 1)
                  /\ u.SoC[360] = Zero
                  /\ Len(ret.capacity_Ah) <= 360
                  /\ Len(ret.capacity_Ah) = 360 =>
                         ret.capacity_Ah[360] = Rat(5, 1) /\ ret.SoC[360] = Zero
            /\ (/\ I = Rat(5, 1)
                /\ output.time = <<Rat(0, 1), Rat(10, 1), Rat(20, 1), Rat(30, 1)>>
                /\ u.voltage_avg = <<Rat(4, 1), Rat(7, 2), Rat(16, 5), Rat(29, 10)>>
                /\ CUT_OFF_VOLTAGE = Rat(3, 1))
               => /\ SeriesLengths(ret) = {4}
                  /\ ret.capacity_Ah[4] = Rat(200, 3600)

\* C10 witness: the long discharge at 5 A on the 10 s grid, the voltage still
\* above the cutoff, ends at its 360th sample with 5 Ah drawn and SoC 0.
C10_Witness ==
    /\ Returned
    /\ processed.reason = "soc"
    /\ Len(output.time) > 360
    /\ Len(ret.capacity_Ah) = 360
    /\ ret.capacity_Ah[360] = Rat(5, 1)
    /\ ret.SoC[360] = Zero

\* The short scenario of C10 is among the runs.
C10_ScenarioReached ==
    /\ Returned
    /\ output.time = <<Rat(0, 1), Rat(10, 1), Rat(20, 1), Rat(30, 1)>>
    /\ ret.voltage_avg = <<Rat(4, 1), Rat(7, 2), Rat(16, 5), Rat(29, 10)>>
    /\ ret.current_avg[1] = Rat(5, 1)

----------------------------------------------------------------------------
(* The script as a whole: the module-level parsing of CURRENT_TESTS, the   *)
(* loop of main() and the GUI that launches the script and waits for it.   *)
(* Text is a tuple of one-character strings; a dictionary is the sequence  *)
(* of its [key, value] items in insertion order.                           *)

\* f"{float(x)}A": "5.0A".
FallbackName(current) == FloatStr(current) \o <<"A">>

\* d[key] = value on an insertion-ordered dict: an existing key keeps its
\* place and takes the new value, a new key goes to the end.
DictSet(d, key, value) ==
    IF \E k \in 1..Len(d) : d[k].key = key
    THEN [k \in 1..Len(d) |->
            IF d[k].key = key THEN [key |-> key, value |-> value] ELSE d[k]]
    ELSE Append(d, [key |-> key, value |-> value])

Keys(d) == [k \in 1..Len(d) |-> d[k].key]

\* A plausible slip: the newest result is put in front of the older ones.
StoreResultInFront(results, name, processed_data) ==
    <<[key |-> name, value |-> processed_data]>>
        \o SelectSeq(results, LAMBDA it : it.key # name)

\* Line 332: all_results[test_name] = processed_data.
StoreResult(results, name, processed_data) == DictSet(results, name, processed_data)

\* One entry of CURRENT_TESTS_STR.split(','): with a colon it is
\* "name:current", without one it is the current alone; parses says whether
\* float() accepts the current's text.
EntryName(test) == IF test.colon THEN Strip(test.name) ELSE FallbackName(test.current)

\* Lines 40-47: the loop that fills CURRENT_TESTS; float() raises ValueError
\* on the first entry it cannot parse.
RECURSIVE ParseCurrentTests(_, _)
ParseCurrentTests(tests, d) ==
    IF tests = <<>> THEN [exc |-> "none", tests |-> d]
    ELSE IF ~Head(tests).parses THEN [exc |-> "ValueError", tests |-> d]
    ELSE ParseCurrentTests(Tail(tests),
                           DictSet(d, EntryName(Head(tests)), Head(tests).current))

\* The raise-or-return outcome of a call.
Raises(exc) == [exc |-> exc, output |-> NoOutput]

Returns(out) == [exc |-> "none", output |-> out]

\* Lines 129-147 of run_simulation: what lp.solve returns is returned, what
\* it raises is logged and raised again.
RunSimulationSwallows(solve) == Returns(solve.output)

RunSimulationOutcome(solve) == solve

\* Lines 311, 350: the try block wraps the whole body of main(), so a raise
\* in any test leaves the loop for the except clause.
AfterRaiseNextTest(done) == [pc |-> "loop", tests_done |-> done + 1]

AfterRaise(done) == [pc |-> "except", tests_done |-> done]

\* Line 354-355: the script ends when main() returns, with exit status 0.
ExitStatusAfterMain == 0

\* An uncaught exception while the module is loaded ends the script with
\* exit status 1.
ExitStatusUncaught == 1

\* One event of the history.
Event(ev, test, exc) == [ev |-> ev, test |-> test, exc |-> exc]

NoTest == <<>>

\* The test the loop of main() is working on, line 317.
test_name == CURRENT_TESTS[tests_done + 1].key

current == CURRENT_TESTS[tests_done + 1].value

----------------------------------------------------------------------------
(* Inputs of the script.                                                   *)

TestNames == {<<"a">>, <<" ", "a">>, <<"b">>}

TestCurrents == {Rat(5, 1), Rat(10, 1)}

\* Entries the GUI writes (batteryPack_gui.py line 1056): name:current with
\* a current that float() accepts.
NamedEntries ==
    {[colon |-> TRUE, name |-> n, current |-> c, parses |-> TRUE] :
        n \in TestNames, c \in TestCurrents}

\* Entries a shell can also supply: a bare current, and a current that is
\* not a number.
BareEntries ==
    {[colon |-> FALSE, name |-> <<>>, current |-> Rat(5, 1), parses |-> TRUE]}

MalformedEntries ==
    {[colon |-> TRUE, name |-> <<"b">>, current |-> Zero, parses |-> FALSE]}

Lists(entries, maxLen) == UNION {[1..n -> entries] : n \in 1..maxLen}

\* What the solver can return for a discharge at i0 amperes: two samples
\* half an hour apart with the voltage holding or sagging to the cutoff, or
\* a single sample.
DischargeOutput(n, i0, v) ==
    [time |-> UniformGrid(n, 1800), current |-> ConstantTable(n, i0),
     voltage |-> [k \in 1..n |-> IF k = 1 THEN <<Rat(4, 1), Rat(4, 1)>> ELSE <<v, v>>],
     temperature |-> TemperatureTable(n), heating |-> HeatingTable(n)]

SolveOutcomes(i0) ==
    {Raises("SolverError"),
     Returns(DischargeOutput(2, i0, Rat(4, 1))),
     Returns(DischargeOutput(2, i0, Rat(5, 2))),
     Returns(DischargeOutput(1, i0, Rat(4, 1)))}

----------------------------------------------------------------------------
(* The script, from its launch to its exit, and the GUI waiting for it.    *)

\* The script has been launched, from a shell or by run_simulation of the GUI
\* (batteryPack_gui.py lines 1014-1106), which has validated the entries,
\* opened the progress window, set the status and scheduled check_process.
InitMain ==
    /\ INITIAL_SOC = Rat(1, 1)
    /\ NOMINAL_CAPACITY = Rat(5, 1)
    /\ CUT_OFF_VOLTAGE = Rat(3, 1)
    /\ pc = "launched"
    /\ output = NoOutput
    /\ processed = NotCalled
    /\ launcher \in {"cli", "gui"}
    /\ supplied \in IF launcher = "gui"
                    THEN Lists(NamedEntries, MaxTests)
                    ELSE Lists(NamedEntries \cup BareEntries \cup MalformedEntries,
                               MaxTests)
    /\ CURRENT_TESTS = <<>>
    /\ DRAW_CIRCUIT \in BOOLEAN
    /\ tests_done = 0
    /\ all_results = <<>>
    /\ first_netlist = <<>>
    /\ trace = <<>>
    /\ calls = <<>>
    /\ returncode = -1
    /\ status_var = IF launcher = "gui" THEN Status("Simulation running...", <<>>)
                                         ELSE Status("Ready", <<>>)
    /\ dialog = NoDialog
    /\ FormConstructed
    /\ progress_window = (launcher = "gui")
    /\ scheduled = (launcher = "gui")

\* Lines 36-50 and 354-355: the module is loaded, which fills CURRENT_TESTS, and
\* main() starts (lines 313-314); a ValueError of float() is caught by nothing
\* and ends the script.
ImportScript ==
    /\ pc = "launched"
    /\ LET parsed == ParseCurrentTests(supplied, <<>>)
       IN  IF parsed.exc = "none"
           THEN /\ CURRENT_TESTS' = parsed.tests
                /\ pc' = "loop"
                /\ returncode' = returncode
                /\ trace' = trace
           ELSE /\ CURRENT_TESTS' = parsed.tests
                /\ pc' = "exited"
                /\ returncode' = ExitStatusUncaught
                /\ trace' = Append(trace, Event("import", NoTest, parsed.exc))
    /\ all_results' = <<>>
    /\ first_netlist' = <<>>
    /\ UNCHANGED <<INITIAL_SOC, NOMINAL_CAPACITY, CUT_OFF_VOLTAGE, output, processed,
                   supplied, DRAW_CIRCUIT, tests_done, calls, guiVars>>

\* Lines 317-325: the next test of the loop is configured and the first
\* netlist is kept.
MainConfigure ==
    /\ pc = "loop"
    /\ tests_done < Len(CURRENT_TESTS)
    /\ first_netlist' = IF first_netlist = <<>> THEN current ELSE first_netlist
    /\ trace' = Append(trace, Event("configure", test_name, "none"))
    /\ pc' = "configured"
    /\ UNCHANGED <<INITIAL_SOC, NOMINAL_CAPACITY, CUT_OFF_VOLTAGE, output, processed,
                   supplied, CURRENT_TESTS, DRAW_CIRCUIT, tests_done, all_results,
                   calls, returncode, guiVars>>

\* Line 328: run_simulation(config) calls lp.solve once and returns its
\* output or raises.
MainRunSimulation ==
    /\ pc = "configured"
    /\ \E solve \in SolveOutcomes(current) :
         LET outcome == RunSimulationOutcome(solve)
             after   == AfterRaise(tests_done)
         IN  /\ trace' = trace \o <<Event("solve", test_name, solve.exc),
                                    Event("run_simulation", test_name, outcome.exc)>>
             /\ IF outcome.exc = "none"
                THEN /\ output' = outcome.output
                     /\ pc' = "solved"
                     /\ tests_done' = tests_done
                ELSE /\ output' = output
                     /\ pc' = after.pc
                     /\ tests_done' = after.tests_done
    /\ UNCHANGED <<INITIAL_SOC, NOMINAL_CAPACITY, CUT_OFF_VOLTAGE, processed, supplied,
                   CURRENT_TESTS, DRAW_CIRCUIT, all_results, first_netlist, calls,
                   returncode, guiVars>>

\* Lines 329-334: the output is post-processed and the result stored under
\* the name of the test.
MainProcess ==
    /\ pc = "solved"
    /\ LET result == ProcessSimulationOutputResult(output)
           after  == AfterRaise(tests_done)
       IN  /\ processed' = result
           /\ output' = OutputAfterCall(output)
           /\ calls' = Append(calls, [output |-> output, result |-> result])
           /\ trace' = Append(trace, Event("process", test_name, result.raised))
           /\ IF result.raised = "none"
              THEN /\ all_results' = StoreResult(all_results, test_name, result.ret)
                   /\ tests_done' = tests_done + 1
                   /\ pc' = "loop"
              ELSE /\ all_results' = all_results
                   /\ tests_done' = after.tests_done
                   /\ pc' = after.pc
    /\ UNCHANGED <<INITIAL_SOC, NOMINAL_CAPACITY, CUT_OFF_VOLTAGE, supplied,
                   CURRENT_TESTS, DRAW_CIRCUIT, first_netlist, returncode, guiVars>>

\* Lines 337-340: after the last test the circuit is drawn if asked for.  The
\* truth test of the netlist and lp.draw_circuit belong to pandas and
\* liionpack: either may raise.
MainDrawCircuit ==
    /\ pc = "loop"
    /\ tests_done >= Len(CURRENT_TESTS)
    /\ IF DRAW_CIRCUIT /\ first_netlist # <<>>
       THEN \E exc \in {"none", "DrawError"} :
              /\ trace' = Append(trace, Event("draw_circuit", NoTest, exc))
              /\ pc' = IF exc = "none" THEN "plot" ELSE "except"
       ELSE /\ trace' = trace
            /\ pc' = "plot"
    /\ UNCHANGED <<INITIAL_SOC, NOMINAL_CAPACITY, CUT_OFF_VOLTAGE, output, processed,
                   supplied, CURRENT_TESTS, DRAW_CIRCUIT, tests_done, all_results,
                   first_netlist, calls, returncode, guiVars>>

\* Lines 343-349 and 354-355: the results are plotted, the citations printed,
\* success is logged, main() returns and the script ends.
MainPlot ==
    /\ pc = "plot"
    /\ \E exc \in {"none", "PlotError"} :
         IF exc = "none"
         THEN /\ trace' = trace \o <<Event("plot_simulation_results", NoTest, exc),
                                     Event("success", NoTest, "none")>>
              /\ pc' = "exited"
              /\ returncode' = ExitStatusAfterMain
         ELSE /\ trace' = Append(trace, Event("plot_simulation_results", NoTest, exc))
              /\ pc' = "except"
              /\ returncode' = returncode
    /\ UNCHANGED <<INITIAL_SOC, NOMINAL_CAPACITY, CUT_OFF_VOLTAGE, output, processed,
                   supplied, CURRENT_TESTS, DRAW_CIRCUIT, tests_done, all_results,
                   first_netlist, calls, guiVars>>

\* Lines 350-351 and 354-355: the except clause logs the exception and raises
\* nothing; main() returns and the script ends.
MainExcept ==
    /\ pc = "except"
    /\ trace' = Append(trace, Event("logger.error", NoTest, trace[Len(trace)].exc))
    /\ pc' = "exited"
    /\ returncode' = ExitStatusAfterMain
    /\ UNCHANGED <<INITIAL_SOC, NOMINAL_CAPACITY, CUT_OFF_VOLTAGE, output, processed,
                   supplied, CURRENT_TESTS, DRAW_CIRCUIT, tests_done, all_results,
                   first_netlist, calls, guiVars>>

\* A plausible slip: every finished run is reported as a success.
SucceededAlways(code) == TRUE

\* batteryPack_gui.py line 1114: the run is reported as a success when the
\* exit status is 0.
Succeeded(code) == code = 0

\* batteryPack_gui.py lines 1107-1129: check_process, run by the Tk timer.
\* returncode is -1 while process.poll() gives None.
CheckProcess ==
    /\ launcher = "gui"
    /\ scheduled
    /\ IF returncode # -1
       THEN /\ progress_window' = FALSE
            /\ scheduled' = FALSE
            /\ reports' = reports + 1
            /\ IF Succeeded(returncode)
               THEN /\ dialog' = [title |-> "Simulation Complete",
                                  message |-> "Simulation has completed successfully.",
                                  code |-> returncode]
                    /\ status_var' = Status("Simulation completed successfully", <<>>)
               ELSE /\ dialog' = [title |-> "Simulation Error",
                                  message |-> "Simulation terminated with error code",
                                  code |-> returncode]
                    /\ status_var' = Status("Simulation failed", <<>>)
       ELSE /\ scheduled' = TRUE
            /\ UNCHANGED <<progress_window, dialog, status_var, reports>>
    /\ UNCHANGED <<INITIAL_SOC, NOMINAL_CAPACITY, CUT_OFF_VOLTAGE, pc, output, processed,
                   mainVars, launcher, fields, draw_circuit, current_tests,
                   config_file, valid, ops>>

NextMain ==
    \/ ImportScript
    \/ MainConfigure
    \/ MainRunSimulation
    \/ MainProcess
    \/ MainDrawCircuit
    \/ MainPlot
    \/ MainExcept
    \/ CheckProcess

SpecMain == InitMain /\ [][NextMain]_vars

----------------------------------------------------------------------------
(* Claims about the script as a whole, checked under SpecMain.             *)

\* The events of the history with a given name.
EventsOf(ev) == {k \in 1..Len(trace) : trace[k].ev = ev}

\* The positions of the history where a named test failed: run_simulation or
\* process_simulation_output raised.
TestFailures ==
    {k \in 1..Len(trace) :
        trace[k].ev \in {"run_simulation", "process"} /\ trace[k].exc # "none"}

C15_FailureSurfaced ==
    (pc = "exited" /\ TestFailures # {}) => returncode # 0

\* C16: a run launched from the GUI in which a named test failed is never
\* reported as a success, neither in the message box nor in the status line.
C16_GuiNeverShowsSuccessForFailedRun ==
    (launcher = "gui" /\ TestFailures # {})
        => /\ dialog.message # "Simulation has completed successfully."
           /\ status_var.text # "Simulation completed successfully"

\* C17: when lp.solve raises for a test, run_simulation raises the same
\* exception to main(), lp.solve is called once for that test, and
\* process_simulation_output is never called for it nor a result stored.
C17_SolverFailureReRaised ==
    \A k \in EventsOf("solve") :
        trace[k].exc # "none" =>
            /\ k < Len(trace)
            /\ trace[k + 1] = Event("run_simulation", trace[k].test, trace[k].exc)
            /\ \A j \in EventsOf("solve") : trace[j].test = trace[k].test => j = k
            /\ \A j \in EventsOf("process") : trace[j].test # trace[k].test
            /\ \A j \in 1..Len(all_results) : all_results[j].key # trace[k].test

\* lp.solve raised for the second test of a run that has ended.
C17_Witness ==
    /\ pc = "exited"
    /\ tests_done = 1
    /\ \E k \in EventsOf("solve") : trace[k].exc = "SolverError"

\* The names the supplied entries are stored under, in the order supplied.
SuppliedNames == [k \in 1..Len(supplied) |-> EntryName(supplied[k])]

\* A sequence without its repetitions: each value stays where it first was.
RECURSIVE FirstOccurrences(_)
FirstOccurrences(names) ==
    IF names = <<>> THEN <<>>
    ELSE LET front == FirstOccurrences(SubSeq(names, 1, Len(names) - 1))
             last  == names[Len(names)]
         IN  IF \E k \in 1..Len(front) : front[k] = last
             THEN front ELSE Append(front, last)

\* The module was loaded, the loop of main() has ended and no test failed.
AllTestsSucceeded ==
    /\ pc \in {"loop", "plot", "except", "exited"}
    /\ EventsOf("import") = {}
    /\ tests_done = Len(CURRENT_TESTS)
    /\ TestFailures = {}

\* C18 as stated: when all tests succeed the results hold exactly one entry
\* per supplied test, keyed by its name, in the order supplied.
C18_OneEntryPerSuppliedTest ==
    AllTestsSucceeded => Keys(all_results) = SuppliedNames

\* C18, amended: when all tests succeed the results hold exactly one entry
\* per distinct name among the supplied tests (the name stripped of blanks, or
\* the current followed by "A" for an entry without a colon), in the order of
\* first appearance; so one entry per supplied test, in the order supplied,
\* when those names are pairwise distinct.
C18_OneEntryPerDistinctName ==
    AllTestsSucceeded =>
        /\ Keys(all_results) = FirstOccurrences(SuppliedNames)
        /\ (\A j \in 1..Len(supplied) : \A k \in 1..Len(supplied) :
                SuppliedNames[j] = SuppliedNames[k] => j = k)
            => Keys(all_results) = SuppliedNames

\* Two tests with different names were supplied and both succeeded.
C18_Witness ==
    /\ AllTestsSucceeded
    /\ Len(supplied) = 2
    /\ SuppliedNames[1] # SuppliedNames[2]
    /\ Len(all_results) = 2

\* C20: when the solver or the post-processor fails for a named test, nothing
\* of the run follows but the logging of the error: no later test is
\* configured or solved, no circuit is drawn and plot_simulation_results is
\* not called.
C20_FailureAbortsRun ==
    \A k \in TestFailures : \A j \in (k + 1)..Len(trace) :
        trace[j].ev \notin {"configure", "solve", "run_simulation", "process",
                            "draw_circuit", "plot_simulation_results", "success"}

\* The first of two tests failed, with a circuit diagram asked for, and the
\* script has ended.
C20_Witness ==
    /\ pc = "exited"
    /\ TestFailures # {}
    /\ tests_done = 0
    /\ Len(CURRENT_TESTS) = 2
    /\ DRAW_CIRCUIT

----------------------------------------------------------------------------
(* Text and numbers: int(), float(), str.split() as the GUI and the script *)
(* use them.                                                               *)

DigitChars == {"0", "1", "2", "3", "4", "5", "6", "7", "8", "9"}

DigitValue(c) == CHOOSE n \in 0..9 : Digit(n) = c

IsDigits(text) == \A k \in 1..Len(text) : text[k] \in DigitChars

RECURSIVE NatOf(_)
NatOf(text) ==
    IF text = <<>> THEN 0
    ELSE 10 * NatOf(SubSeq(text, 1, Len(text) - 1)) + DigitValue(text[Len(text)])

RECURSIVE Pow10(_)
Pow10(k) == IF k = 0 THEN 1 ELSE 10 * Pow10(k - 1)

\* The first position of character c in text, 0 if there is none.
IndexOf(text, c) ==
    LET hits == {k \in 1..Len(text) : text[k] = c}
    IN  IF hits = {} THEN 0 ELSE CHOOSE k \in hits : \A j \in hits : k <= j

\* A sign in front of a number, and the text without it.
Unsigned(text) ==
    IF text # <<>> /\ text[1] \in {"-", "+"} THEN Tail(text) ELSE text

SignOf(text) == IF text # <<>> /\ text[1] = "-" THEN -1 ELSE 1

\* int(text): blanks around, an optional sign, digits; ok is FALSE where
\* Python raises ValueError.
ParseInt(text) ==
    LET digits == Unsigned(Strip(text))
    IN  IF digits # <<>> /\ IsDigits(digits)
        THEN [ok |-> TRUE, value |-> SignOf(Strip(text)) * NatOf(digits)]
        ELSE [ok |-> FALSE, value |-> 0]

\* float(text): blanks around, an optional sign, then nan, inf, or digits with
\* at most one point and at least one digit.
ParseFloat(text) ==
    LET t      == Strip(text)
        number == Unsigned(t)
        dot    == IndexOf(number, ".")
        whole  == IF dot = 0 THEN number ELSE SubSeq(number, 1, dot - 1)
        frac   == IF dot = 0 THEN <<>> ELSE SubSeq(number, dot + 1, Len(number))
    IN  IF number = <<"n", "a", "n">> THEN [ok |-> TRUE, value |-> NaN]
        ELSE IF number = <<"i", "n", "f">>
        THEN [ok |-> TRUE, value |-> <<SignOf(t), 0>>]
        ELSE IF IsDigits(whole) /\ IsDigits(frac) /\ whole \o frac # <<>>
        THEN [ok |-> TRUE,
              value |-> Rat(SignOf(t) * (NatOf(whole) * Pow10(Len(frac)) + NatOf(frac)),
                            Pow10(Len(frac)))]
        ELSE [ok |-> FALSE, value |-> Zero]

\* text.split(sep): the pieces between the separators, empty ones included.
RECURSIVE SplitOn(_, _)
SplitOn(text, sep) ==
    LET at == IndexOf(text, sep)
    IN  IF at = 0 THEN <<text>>
        ELSE <<SubSeq(text, 1, at - 1)>> \o SplitOn(SubSeq(text, at + 1, Len(text)), sep)

\* sep.join(pieces).
RECURSIVE Join(_, _)
Join(pieces, sep) ==
    IF pieces = <<>> THEN <<>>
    ELSE IF Len(pieces) = 1 THEN pieces[1]
    ELSE pieces[1] \o <<sep>> \o Join(Tail(pieces), sep)

\* 4P1S.py lines 41-47 on one piece of CURRENT_TESTS_STR: with a colon the
\* piece is split at the first one.
EntryOfText(test) ==
    LET colon == IndexOf(test, ":")
    IN  IF colon # 0
        THEN LET parsed == ParseFloat(SubSeq(test, colon + 1, Len(test)))
             IN  [colon |-> TRUE, name |-> SubSeq(test, 1, colon - 1),
                  current |-> parsed.value, parses |-> parsed.ok]
        ELSE LET parsed == ParseFloat(test)
             IN  [colon |-> FALSE, name |-> <<>>,
                  current |-> parsed.value, parses |-> parsed.ok]

\* 4P1S.py lines 39-40: CURRENT_TESTS_STR.split(',').
SuppliedOfText(text) ==
    LET pieces == SplitOn(text, ",")
    IN  [k \in 1..Len(pieces) |-> EntryOfText(pieces[k])]

----------------------------------------------------------------------------
(* The form of the GUI: validate_inputs.                                   *)

One == Rat(1, 1)

Passes == [fails |-> FALSE, message |-> "none"]

Fails(message) == [fails |-> TRUE, message |-> message]

\* if int(text) <= 0: raise ValueError(message); int() raises ValueError
\* itself on text that is not an integer.
CheckInt(text, message) ==
    LET parsed == ParseInt(text)
    IN  IF ~parsed.ok THEN Fails("invalid literal for int()")
        ELSE IF parsed.value <= 0 THEN Fails(message) ELSE Passes

\* The comparisons of validate_inputs on a float, by the rule applied:
\* "positive" raises on x <= 0, "non-negative" on x < 0, "unit" on
\* not 0 <= x <= 1, "non-zero" on x == 0.
Rejected(rule, x) ==
    CASE rule = "positive"     -> RLeq(x, Zero)
      [] rule = "non-negative" -> RLt(x, Zero)
      [] rule = "unit"         -> ~(RLeq(Zero, x) /\ RLeq(x, One))
      [] rule = "non-zero"     -> x = Zero

CheckFloat(text, rule, message) ==
    LET parsed == ParseFloat(text)
    IN  IF ~parsed.ok THEN Fails("could not convert string to float")
        ELSE IF Rejected(rule, parsed.value) THEN Fails(message) ELSE Passes

\* if not text.strip(): raise ValueError(message).
CheckNonBlank(text, message) == IF Strip(text) = <<>> THEN Fails(message) ELSE Passes

\* batteryPack_gui.py lines 993-997: the two checks of each test, in order.
RECURSIVE TestChecks(_)
TestChecks(tests) ==
    IF tests = <<>> THEN <<>>
    ELSE <<CheckNonBlank(Head(tests).name_var, "Test name cannot be empty"),
           CheckFloat(Head(tests).current_var, "non-zero", "Test current cannot be zero")>>
         \o TestChecks(Tail(tests))

\* batteryPack_gui.py lines 963-1006: the checks of validate_inputs in the
\* order the code makes them.
Checks(f, draw, tests) ==
    <<CheckInt(f.num_parallel, "Number of parallel cells must be positive"),
      CheckInt(f.num_series, "Number of series cells must be positive"),
      CheckFloat(f.initial_voltage, "positive", "Initial voltage must be positive"),
      CheckFloat(f.cut_off_voltage, "positive", "Cut-off voltage must be positive"),
      CheckFloat(f.initial_soc, "unit", "Initial SoC must be between 0 and 1"),
      CheckFloat(f.nominal_capacity, "positive", "Nominal capacity must be positive"),
      CheckFloat(f.busbar_resistance, "non-negative", "Busbar resistance cannot be negative"),
      CheckFloat(f.connection_resistance, "non-negative",
                 "Connection resistance cannot be negative"),
      CheckFloat(f.internal_resistance, "non-negative",
                 "Internal resistance cannot be negative"),
      CheckNonBlank(f.experiment_period, "Experiment period cannot be empty"),
      CheckInt(f.experiment_time, "Experiment time must be positive")>>
    \o TestChecks(tests)
    \o (IF draw
        THEN <<CheckInt(f.circuit_dpi, "Circuit DPI must be positive"),
               CheckFloat(f.circuit_cpt_size, "positive",
                          "Circuit component size must be positive"),
               CheckFloat(f.circuit_node_spacing, "positive",
                          "Circuit node spacing must be positive")>>
        ELSE <<>>)

\* batteryPack_gui.py lines 955-1012, validate_inputs: True when no check
\* raises, else False with the message of the first that does shown in a
\* "Validation Error" box.
ValidateInputs(f, draw, tests) ==
    LET Raising(check) == check.fails
        raising == SelectSeq(Checks(f, draw, tests), Raising)
    IN  IF raising = <<>> THEN [ok |-> TRUE, message |-> "none"]
        ELSE [ok |-> FALSE, message |-> Head(raising).message]

----------------------------------------------------------------------------
(* validate_inputs on forms that differ from the default one in a few      *)
(* places.                                                                 *)

\* Most places of the form that differ from the form after construction.
MaxDeviations == 1

\* Texts a field can hold, typed or loaded from a configuration file.
FieldTexts ==
    {<<"0">>, <<"-", "1">>, <<>>, <<"n", "a", "n">>, <<"2">>}

\* The places of a form with two tests: the fields and the two widgets of
\* each test.
TestPlaces == {"name_1", "current_1", "name_2", "current_2"}

Places == FieldNames \cup TestPlaces

\* The changes of at most n places.
RECURSIVE Deviations(_)
Deviations(n) ==
    IF n = 0 THEN {<<>>}
    ELSE LET fewer == Deviations(n - 1)
         IN  fewer \cup
             {d @@ (place :> text) :
                d \in fewer, place \in Places, text \in FieldTexts}

Deviated(d, place, text) == IF place \in DOMAIN d THEN d[place] ELSE text

\* The first two default tests with the changes of d typed into their widgets.
DeviatedTests(d) ==
    LET rows == UpdateCurrentTestsUi(SubSeq(DefaultTests, 1, 2))
    IN  <<[rows[1] EXCEPT !.name_var = Deviated(d, "name_1", @),
                          !.current_var = Deviated(d, "current_1", @)],
          [rows[2] EXCEPT !.name_var = Deviated(d, "name_2", @),
                          !.current_var = Deviated(d, "current_2", @)]>>

InitValidate ==
    /\ INITIAL_SOC = Rat(1, 1)
    /\ NOMINAL_CAPACITY = Rat(5, 1)
    /\ CUT_OFF_VOLTAGE = Rat(3, 1)
    /\ pc = "configured"
    /\ output = NoOutput
    /\ processed = NotCalled
    /\ supplied = <<>>
    /\ CURRENT_TESTS = <<>>
    /\ DRAW_CIRCUIT = FALSE
    /\ tests_done = 0
    /\ all_results = <<>>
    /\ first_netlist = <<>>
    /\ trace = <<>>
    /\ calls = <<>>
    /\ returncode = -1
    /\ launcher = "gui"
    /\ status_var = Status("Ready", <<>>)
    /\ dialog = NoDialog
    /\ progress_window = FALSE
    /\ scheduled = FALSE
    /\ \E d \in Deviations(MaxDeviations) :
         /\ fields = [f \in FieldNames |-> Deviated(d, f, FieldDefaults[f])]
         /\ current_tests = DeviatedTests(d)
    /\ draw_circuit \in BOOLEAN
    /\ config_file = NoFile
    /\ valid = "none"
    /\ reports = 0
    /\ ops = <<>>

\* validate_inputs is called on the form as it stands.
CallValidateInputs ==
    /\ valid = "none"
    /\ LET result == ValidateInputs(fields, draw_circuit, current_tests)
       IN  /\ valid' = IF result.ok THEN "True" ELSE "False"
           /\ dialog' = IF result.ok THEN dialog
                        ELSE [title |-> "Validation Error",
                              message |-> result.message, code |-> -1]
    /\ UNCHANGED <<INITIAL_SOC, NOMINAL_CAPACITY, CUT_OFF_VOLTAGE, pc, output, processed,
                   mainVars, launcher, status_var, progress_window, scheduled,
                   fields, draw_circuit, current_tests, config_file, reports, ops>>

NextValidate == CallValidateInputs

SpecValidate == InitValidate /\ [][NextValidate]_vars

\* What the rules ask of a text.
IsPositiveInt(text) == ParseInt(text).ok /\ ParseInt(text).value > 0

IsPositiveFloat(text) == ParseFloat(text).ok /\ RLt(Zero, ParseFloat(text).value)

IsNonNegativeFloat(text) == ParseFloat(text).ok /\ RLeq(Zero, ParseFloat(text).value)

IsUnitFloat(text) ==
    /\ ParseFloat(text).ok
    /\ RLeq(Zero, ParseFloat(text).value)
    /\ RLeq(ParseFloat(text).value, One)

IsNonZeroFloat(text) == ParseFloat(text).ok /\ ParseFloat(text).value # Zero

\* The form meets every rule.
FormAcceptable ==
    /\ IsPositiveInt(fields.num_parallel)
    /\ IsPositiveInt(fields.num_series)
    /\ IsPositiveFloat(fields.initial_voltage)
    /\ IsPositiveFloat(fields.cut_off_voltage)
    /\ IsPositiveFloat(fields.nominal_capacity)
    /\ IsUnitFloat(fields.initial_soc)
    /\ IsNonNegativeFloat(fields.busbar_resistance)
    /\ IsNonNegativeFloat(fields.connection_resistance)
    /\ IsNonNegativeFloat(fields.internal_resistance)
    /\ Strip(fields.experiment_period) # <<>>
    /\ IsPositiveInt(fields.experiment_time)
    /\ \A k \in 1..Len(current_tests) :
            /\ Strip(current_tests[k].name_var) # <<>>
            /\ IsNonZeroFloat(current_tests[k].current_var)
    /\ draw_circuit =>
            /\ IsPositiveInt(fields.circuit_dpi)
            /\ IsPositiveFloat(fields.circuit_cpt_size)
            /\ IsPositiveFloat(fields.circuit_node_spacing)

\* C24: validate_inputs returns True exactly when the form meets every rule:
\* positive integer counts and experiment time, voltages and capacity above
\* 0, SoC within [0, 1], resistances at least 0, a non-blank period, tests
\* with non-blank names and non-zero currents and, when the circuit is to be
\* drawn, circuit settings above 0; otherwise it returns False and shows one
\* validation error.
C24_TrueExactlyWhenRulesHold ==
    valid # "none" =>
        /\ (valid = "True") <=> FormAcceptable
        /\ (valid = "False") <=> (dialog.title = "Validation Error")

----------------------------------------------------------------------------
(* The GUI in use: the user edits the form, adds and deletes tests, saves  *)
(* and loads configurations and runs the simulation.                       *)

\* Most rows the list of tests is given.
MaxRows == 4

\* Most operations of the user in one session.
MaxOps == 3

\* The main window takes input: the progress window, which grabs it
\* (batteryPack_gui.py line 1072), is not open.
GuiIdle == launcher = "gui" /\ ~progress_window /\ Len(ops) < MaxOps

\* What the user types: names for a test, currents for a test, and texts for
\* some fields.
TypedNames == {<<>>, <<"a", ",", "b">>, <<" ", "a">>, <<"a", ":", "b">>}

TypedCurrents == {<<"0">>, <<"5">>}

TypedFields ==
    {<<"nominal_capacity", <<"0">>>>, <<"initial_voltage", <<"4">>>>,
     <<"ambient_temp", <<>>>>}

\* The name and current stored for each row, without the widgets.
Stored(tests) ==
    [k \in 1..Len(tests) |-> [name |-> tests[k].name, current |-> tests[k].current]]

\* The name and the number each row shows.
Shown(tests) ==
    [k \in 1..Len(tests) |->
        [name |-> tests[k].name_var, current |-> ParseFloat(tests[k].current_var).value]]

Without(seq, index) ==
    [k \in 1..(Len(seq) - 1) |-> IF k < index THEN seq[k] ELSE seq[k + 1]]

\* batteryPack_gui.py lines 770-773: the test add_current_test appends.
NewTestNumbered(tests) ==
    [name |-> <<"T", "e", "s", "t", " ">> \o IntStr(Len(tests) + 1),
     current |-> FloatNum(10, 1)]

\* batteryPack_gui.py lines 768-775, add_current_test.
AddCurrentTest ==
    /\ GuiIdle
    /\ Len(current_tests) < MaxRows
    /\ current_tests' =
            UpdateCurrentTestsUi(Append(Stored(current_tests), NewTestNumbered(current_tests)))
    /\ status_var' = Status("Added new current test: Test",
                            IntStr(Len(current_tests) + 1))
    /\ ops' = Append(ops, "add_current_test")
    /\ UNCHANGED <<INITIAL_SOC, NOMINAL_CAPACITY, CUT_OFF_VOLTAGE, pc, output, processed,
                   mainVars, launcher, dialog, progress_window, scheduled, fields,
                   draw_circuit, config_file, valid, reports>>

\* A plausible slip: the last test can be removed too.
MayDeleteAlways(tests) == TRUE

\* batteryPack_gui.py line 779: a test is removed only while more than one
\* is left.
MayDelete(tests) == Len(tests) > 1

\* batteryPack_gui.py lines 777-792, delete_current_test, from the delete
\* button of a row.
DeleteCurrentTest ==
    /\ GuiIdle
    /\ \E index \in 1..Len(current_tests) :
         IF MayDelete(current_tests)
         THEN /\ current_tests' =
                    UpdateCurrentTestsUi(Without(Stored(current_tests), index))
              /\ status_var' = Status("Removed test:", current_tests[index].name_var)
              /\ dialog' = dialog
         ELSE /\ dialog' = [title |-> "Warning",
                            message |-> "You must have at least one current test.",
                            code |-> -1]
              /\ UNCHANGED <<current_tests, status_var>>
    /\ ops' = Append(ops, "delete_current_test")
    /\ UNCHANGED <<INITIAL_SOC, NOMINAL_CAPACITY, CUT_OFF_VOLTAGE, pc, output, processed,
                   mainVars, launcher, progress_window, scheduled, fields,
                   draw_circuit, config_file, valid, reports>>

\* The user types a name or a current into the first row, or a text into a
\* field.
TypeTestName ==
    /\ GuiIdle
    /\ \E text \in TypedNames :
         current_tests' = [current_tests EXCEPT ![1].name_var = text]
    /\ ops' = Append(ops, "type")
    /\ UNCHANGED <<INITIAL_SOC, NOMINAL_CAPACITY, CUT_OFF_VOLTAGE, pc, output, processed,
                   mainVars, launcher, status_var, dialog, progress_window, scheduled,
                   fields, draw_circuit, config_file, valid, reports>>

TypeTestCurrent ==
    /\ GuiIdle
    /\ \E text \in TypedCurrents :
         current_tests' = [current_tests EXCEPT ![1].current_var = text]
    /\ ops' = Append(ops, "type")
    /\ UNCHANGED <<INITIAL_SOC, NOMINAL_CAPACITY, CUT_OFF_VOLTAGE, pc, output, processed,
                   mainVars, launcher, status_var, dialog, progress_window, scheduled,
                   fields, draw_circuit, config_file, valid, reports>>

TypeField ==
    /\ GuiIdle
    /\ \E typed \in TypedFields : fields' = [fields EXCEPT ![typed[1]] = typed[2]]
    /\ ops' = Append(ops, "type")
    /\ UNCHANGED <<INITIAL_SOC, NOMINAL_CAPACITY, CUT_OFF_VOLTAGE, pc, output, processed,
                   mainVars, launcher, status_var, dialog, progress_window, scheduled,
                   draw_circuit, current_tests, config_file, valid, reports>>

\* The fields save_configuration converts with int(), the others that hold
\* numbers with float().
IntFields == {"num_parallel", "num_series", "experiment_time", "circuit_dpi"}

NumberFields == FieldNames \ {"experiment_period"}

\* The keys of a configuration file.
ConfigKeys == FieldNames \cup {"current_tests", "draw_circuit"}

\* batteryPack_gui.py lines 851-885: the number saved for a field.
SavedNumber(f, text) ==
    IF f \in IntFields THEN IntNum(ParseInt(text).value)
    ELSE [int |-> FALSE, value |-> ParseFloat(text).value]

\* Some int() or float() of lines 851-885 raises ValueError.
SaveRaises(f, tests) ==
    \/ \E name \in IntFields : ~ParseInt(f[name]).ok
    \/ \E name \in NumberFields \ IntFields : ~ParseFloat(f[name]).ok
    \/ \E k \in 1..Len(tests) : ~ParseFloat(tests[k].current_var).ok

\* batteryPack_gui.py lines 849-890: the configuration written to the file.
SavedConfig(f, draw, tests) ==
    [exists  |-> TRUE,
     present |-> ConfigKeys,
     numbers |-> [name \in NumberFields |-> SavedNumber(name, f[name])],
     period  |-> f.experiment_period,
     draw    |-> draw,
     tests   |-> [k \in 1..Len(tests) |->
                    [keys |-> {"name", "current"}, name |-> tests[k].name_var,
                     current |-> [int |-> FALSE,
                                  value |-> ParseFloat(tests[k].current_var).value]]]]

\* batteryPack_gui.py lines 835-895, save_configuration: the file dialog is
\* cancelled or gives a path.
SaveConfiguration ==
    /\ GuiIdle
    /\ \E chosen \in BOOLEAN :
         IF ~chosen
         THEN /\ ops' = Append(ops, "save_configuration: cancelled")
              /\ UNCHANGED <<config_file, status_var, dialog>>
         ELSE IF SaveRaises(fields, current_tests)
         THEN /\ dialog' = [title |-> "Save Error",
                            message |-> "Error saving configuration:", code |-> -1]
              /\ ops' = Append(ops, "save_configuration: failed")
              /\ UNCHANGED <<config_file, status_var>>
         ELSE /\ config_file' = SavedConfig(fields, draw_circuit, current_tests)
              /\ status_var' = Status("Configuration saved to", <<>>)
              /\ dialog' = dialog
              /\ ops' = Append(ops, "save_configuration")
    /\ UNCHANGED <<INITIAL_SOC, NOMINAL_CAPACITY, CUT_OFF_VOLTAGE, pc, output, processed,
                   mainVars, launcher, progress_window, scheduled, fields,
                   draw_circuit, current_tests, valid, reports>>

\* Configuration files written by hand: one whose test has no current, one
\* with an empty list of tests, one with a single test and whole numbers.
HandWrittenFiles ==
    {[exists  |-> TRUE,
      present |-> {"num_parallel", "current_tests", "draw_circuit"},
      numbers |-> [name \in NumberFields |-> IntNum(9)],
      period  |-> <<>>,
      draw    |-> TRUE,
      tests   |-> <<[keys |-> {"name"}, name |-> <<"x">>, current |-> IntNum(0)]>>],
     [exists  |-> TRUE,
      present |-> {"current_tests", "draw_circuit", "num_series"},
      numbers |-> [name \in NumberFields |-> IntNum(2)],
      period  |-> <<>>,
      draw    |-> TRUE,
      tests   |-> <<>>],
     [exists  |-> TRUE,
      present |-> {"current_tests", "nominal_capacity", "experiment_period"},
      numbers |-> [name \in NumberFields |-> IntNum(7)],
      period  |-> <<"1", " ", "s">>,
      draw    |-> FALSE,
      tests   |-> <<[keys |-> {"name", "current"}, name |-> <<"a">>,
                     current |-> IntNum(5)]>>]}

\* A plausible slip: a field is reset to its default instead of taking the
\* value of the file.
LoadedTextDefault(file, f) == FieldDefaults[f]

\* str(config.get(key, default)): the text load_configuration puts into a
\* field (the period is put in as it is).
LoadedText(file, f) ==
    IF f \notin file.present THEN FieldDefaults[f]
    ELSE IF f = "experiment_period" THEN file.period
    ELSE NumStr(file.numbers[f])

\* batteryPack_gui.py lines 915-934: the fields set before the tests are
\* looked at; lines 946-948: those set after.
FieldsBeforeTests ==
    FieldNames \ {"circuit_dpi", "circuit_cpt_size", "circuit_node_spacing"}

\* batteryPack_gui.py lines 937-941: test["name"] or test["current"] raises
\* KeyError.
TestsRaise(file) ==
    /\ "current_tests" \in file.present
    /\ \E k \in 1..Len(file.tests) : file.tests[k].keys # {"name", "current"}

\* batteryPack_gui.py lines 913-948: the form after the configuration is
\* applied, statement by statement, up to the one that raises.
Loaded(file, f, draw, tests) ==
    IF TestsRaise(file)
    THEN [raised |-> TRUE,
          fields |-> [name \in FieldNames |->
                        IF name \in FieldsBeforeTests THEN LoadedText(file, name)
                        ELSE f[name]],
          draw   |-> draw,
          tests  |-> tests]
    ELSE [raised |-> FALSE,
          fields |-> [name \in FieldNames |-> LoadedText(file, name)],
          draw   |-> IF "draw_circuit" \in file.present THEN file.draw ELSE FALSE,
          tests  |-> IF "current_tests" \in file.present /\ file.tests # <<>>
                     THEN UpdateCurrentTestsUi(file.tests) ELSE tests]

\* batteryPack_gui.py lines 897-953, load_configuration, on the file saved
\* before or a hand-written one.
LoadConfiguration ==
    /\ GuiIdle
    /\ \E file \in HandWrittenFiles \cup {config_file} :
         /\ file.exists
         /\ LET after == Loaded(file, fields, draw_circuit, current_tests)
            IN  /\ fields' = after.fields
                /\ draw_circuit' = after.draw
                /\ current_tests' = after.tests
                /\ IF after.raised
                   THEN /\ dialog' = [title |-> "Load Error",
                                      message |-> "Error loading configuration:",
                                      code |-> -1]
                        /\ status_var' = status_var
                        /\ ops' = Append(ops, "load_configuration: failed")
                   ELSE /\ dialog' = dialog
                        /\ status_var' = Status("Configuration loaded from", <<>>)
                        /\ ops' = Append(ops, IF file = config_file
                                              THEN "load_configuration: saved file"
                                              ELSE "load_configuration: other file")
    /\ UNCHANGED <<INITIAL_SOC, NOMINAL_CAPACITY, CUT_OFF_VOLTAGE, pc, output, processed,
                   mainVars, launcher, progress_window, scheduled, config_file,
                   valid, reports>>

----------------------------------------------------------------------------
(* The GUI in use: run_simulation and the script it launches.              *)

\* A plausible slip: the result of validate_inputs is ignored.
MayLaunchAlways(v) == TRUE

\* batteryPack_gui.py lines 1017-1018: run_simulation goes on only when
\* validate_inputs returned True.
MayLaunch(v) == v.ok

\* batteryPack_gui.py lines 1030-1061: some int() or float() raises
\* ValueError while the environment is filled.
EnvRaises(f, tests) == SaveRaises(f, tests)

\* batteryPack_gui.py lines 1051-1056: "name:current" for every row, joined
\* by commas; the current is str(float(text)).
EncodeTests(tests) ==
    Join([k \in 1..Len(tests) |->
            tests[k].name_var \o <<":">> \o FloatStr(ParseFloat(tests[k].current_var).value)],
         ",")

\* batteryPack_gui.py lines 1014-1139, run_simulation, up to the first
\* after(500, check_process).
GuiRunSimulation ==
    /\ GuiIdle
    /\ LET v == ValidateInputs(fields, draw_circuit, current_tests)
           shown == IF v.ok THEN dialog
                    ELSE [title |-> "Validation Error", message |-> v.message,
                          code |-> -1]
       IN  /\ valid' = IF v.ok THEN "True" ELSE "False"
           /\ IF ~MayLaunch(v)
              THEN /\ dialog' = shown
                   /\ UNCHANGED <<INITIAL_SOC, NOMINAL_CAPACITY, CUT_OFF_VOLTAGE, pc,
                                  mainVars, status_var, progress_window, scheduled,
                                  reports>>
              ELSE IF EnvRaises(fields, current_tests)
              THEN /\ dialog' = [title |-> "Input Error",
                                 message |-> "Please check your inputs:", code |-> -1]
                   /\ status_var' = Status("Simulation setup failed - input error", <<>>)
                   /\ UNCHANGED <<INITIAL_SOC, NOMINAL_CAPACITY, CUT_OFF_VOLTAGE, pc,
                                  mainVars, progress_window, scheduled, reports>>
              ELSE /\ dialog' = shown
                   /\ status_var' = Status("Simulation running...", <<>>)
                   /\ progress_window' = TRUE
                   /\ scheduled' = TRUE
                   /\ reports' = 0
                   /\ pc' = "launched"
                   /\ INITIAL_SOC' = ParseFloat(fields.initial_soc).value
                   /\ NOMINAL_CAPACITY' = ParseFloat(fields.nominal_capacity).value
                   /\ CUT_OFF_VOLTAGE' = ParseFloat(fields.cut_off_voltage).value
                   /\ supplied' = SuppliedOfText(EncodeTests(current_tests))
                   /\ DRAW_CIRCUIT' = draw_circuit
                   /\ CURRENT_TESTS' = <<>>
                   /\ tests_done' = 0
                   /\ all_results' = <<>>
                   /\ first_netlist' = <<>>
                   /\ trace' = <<>>
                   /\ returncode' = -1
                   /\ calls' = calls
    /\ ops' = Append(ops, "run_simulation")
    /\ UNCHANGED <<output, processed, launcher, fields, draw_circuit, current_tests,
                   config_file>>

\* 4P1S.py lines 307-355: main() runs its tests and returns, whatever they
\* did, and the script ends.
MainReturns ==
    /\ pc = "loop"
    /\ pc' = "exited"
    /\ returncode' = ExitStatusAfterMain
    /\ UNCHANGED <<INITIAL_SOC, NOMINAL_CAPACITY, CUT_OFF_VOLTAGE, output, processed,
                   supplied, CURRENT_TESTS, DRAW_CIRCUIT, tests_done, all_results,
                   first_netlist, trace, calls, guiVars>>

\* The GUI after construction; no script has been launched.
InitGui ==
    /\ INITIAL_SOC = Rat(1, 1)
    /\ NOMINAL_CAPACITY = Rat(5, 1)
    /\ CUT_OFF_VOLTAGE = Rat(3, 1)
    /\ pc = "not started"
    /\ output = NoOutput
    /\ processed = NotCalled
    /\ supplied = <<>>
    /\ CURRENT_TESTS = <<>>
    /\ DRAW_CIRCUIT = FALSE
    /\ tests_done = 0
    /\ all_results = <<>>
    /\ first_netlist = <<>>
    /\ trace = <<>>
    /\ calls = <<>>
    /\ returncode = -1
    /\ launcher = "gui"
    /\ status_var = Status("Ready", <<>>)
    /\ dialog = NoDialog
    /\ progress_window = FALSE
    /\ scheduled = FALSE
    /\ FormConstructed

NextGui ==
    \/ AddCurrentTest
    \/ DeleteCurrentTest
    \/ TypeTestName
    \/ TypeTestCurrent
    \/ TypeField
    \/ SaveConfiguration
    \/ LoadConfiguration
    \/ GuiRunSimulation
    \/ ImportScript
    \/ MainReturns
    \/ CheckProcess

SpecGui == InitGui /\ [][NextGui]_vars

\* The Tk timer runs the callback it was given.
SpecGuiFair == SpecGui /\ WF_vars(CheckProcess)

----------------------------------------------------------------------------
(* Claims about the GUI in use, checked under SpecGui.                     *)

\* C21: whatever tests are added, deleted or loaded from a file, the list
\* keeps at least one test; deleting from a list of one test leaves the list
\* as it is and shows a warning.
C21_AtLeastOneTest ==
    /\ [](Len(current_tests) >= 1)
    /\ [][DeleteCurrentTest /\ Len(current_tests) = 1
            => /\ current_tests' = current_tests
               /\ dialog'.title = "Warning"]_vars

C21_Witness ==
    /\ Len(current_tests) = 1
    /\ dialog.title = "Warning"
    /\ status_var.text = "Removed test:"

\* The user has only added and deleted tests since the form was built.
OnlyAddedAndDeleted(history) ==
    \A k \in 1..Len(history) : history[k] \in {"add_current_test", "delete_current_test"}

\* The names the rows show are pairwise distinct.
NamesDistinct(tests) ==
    \A j, k \in 1..Len(tests) : j # k => tests[j].name_var # tests[k].name_var

\* C25: after any sequence of add_current_test and delete_current_test from
\* the default tests the names in the list are pairwise distinct, and a run
\* started then gives the script as many entries in CURRENT_TESTS as the
\* list has tests.
C25_NamesStayDistinct ==
    /\ OnlyAddedAndDeleted(ops) => NamesDistinct(current_tests)
    /\ /\ ops # <<>>
       /\ OnlyAddedAndDeleted(SubSeq(ops, 1, Len(ops) - 1))
       /\ ops[Len(ops)] = "run_simulation"
       /\ pc \in {"loop", "exited"}
       => Len(CURRENT_TESTS) = Len(current_tests)

\* The step is a call of run_simulation.
RunSimulationCalled == ops' = Append(ops, "run_simulation")

\* C22: the subprocess is launched only after validate_inputs returned True
\* for the values the form holds; a run_simulation whose validation fails
\* starts no subprocess, opens no progress window and leaves the status text
\* as it was.
C22_LaunchOnlyWhenValid ==
    /\ [][progress_window' /\ ~progress_window
            => /\ RunSimulationCalled
               /\ valid' = "True"
               /\ ValidateInputs(fields, draw_circuit, current_tests).ok
               /\ pc' = "launched"]_vars
    /\ [][RunSimulationCalled /\ valid' = "False"
            => /\ dialog'.title = "Validation Error"
               /\ UNCHANGED <<pc, supplied, returncode, progress_window, scheduled,
                              status_var>>]_vars

\* A run has been reported, and the next run_simulation failed validation.
C22_Witness ==
    /\ valid = "False"
    /\ dialog.title = "Validation Error"
    /\ ops[Len(ops)] = "run_simulation"
    /\ status_var.text = "Simulation completed successfully"
    /\ pc = "exited"
    /\ ~progress_window

\* The texts check_process reports the end of a run with.
ReportedTexts == {"Simulation completed successfully", "Simulation failed"}

\* C23: while the subprocess runs check_process stays scheduled; once it has
\* exited, check_process closes the progress window and reports the end
\* once, as a success exactly when the exit status is 0, and is not
\* scheduled again; and a subprocess that has exited leads to the status
\* 'Simulation completed successfully' or 'Simulation failed'.
C23_ReportedOnceAndEventually ==
    /\ [](progress_window /\ returncode = -1 => scheduled)
    /\ [](reports <= 1)
    /\ [](reports = 1 => ~scheduled /\ ~progress_window /\ returncode # -1)
    /\ [][reports' = reports + 1
            => /\ returncode # -1
               /\ ~progress_window'
               /\ ~scheduled'
               /\ dialog'.code = returncode
               /\ (status_var'.text = "Simulation completed successfully")
                    <=> (returncode = 0)
               /\ (status_var'.text = "Simulation failed") <=> (returncode # 0)]_vars
    /\ (scheduled /\ returncode # -1) ~> (reports = 1 /\ status_var.text \in ReportedTexts)

\* A run whose script ended with a non-zero status has been reported.
C23_Witness ==
    /\ reports = 1
    /\ returncode = 1
    /\ status_var.text = "Simulation failed"
    /\ dialog.title = "Simulation Error"
    /\ ~progress_window

\* The (name, current) pairs the script reads from the entries it was given
\* are those of the rows, in the same order.
ParsedAsShown(entries, tests) ==
    /\ Len(entries) = Len(tests)
    /\ \A k \in 1..Len(tests) :
         /\ k <= Len(entries)
         /\ entries[k].parses
         /\ EntryName(entries[k]) = tests[k].name_var
         /\ entries[k].current = ParseFloat(tests[k].current_var).value

\* C26: for every list of tests validate_inputs accepts, the 'name:current'
\* string the GUI hands to the script is parsed by the script into the same
\* sequence of (name, current) pairs, in the same order.
C26_EncodingRoundTrip ==
    progress_window /\ valid = "True" => ParsedAsShown(supplied, current_tests)

\* The number a field's text stands for.
NumberOf(f, text) ==
    IF f \in IntFields THEN <<ParseInt(text).value, 1>> ELSE ParseFloat(text).value

\* The configuration values the form shows.
FormValues(f, draw, tests) ==
    [numbers |-> [name \in NumberFields |-> NumberOf(name, f[name])],
     period  |-> f.experiment_period,
     draw    |-> draw,
     tests   |-> Shown(tests)]

\* The configuration values a file holds.
FileValues(file) ==
    [numbers |-> [name \in NumberFields |-> file.numbers[name].value],
     period  |-> file.period,
     draw    |-> file.draw,
     tests   |-> [k \in 1..Len(file.tests) |->
                    [name |-> file.tests[k].name, current |-> file.tests[k].current.value]]]

\* C28: save_configuration followed by load_configuration of the saved file
\* restores the same configuration values: the file written holds the
\* values of the form, and after loading it every numeric field parses to
\* the number saved, the period and the draw-circuit flag are those saved,
\* and the tests have the saved names and currents in the saved order.
C28_SaveThenLoadRestores ==
    /\ [][ops' = Append(ops, "save_configuration")
            => FileValues(config_file') = FormValues(fields, draw_circuit, current_tests)]_vars
    /\ [][ops' = Append(ops, "load_configuration: saved file")
            => /\ FormValues(fields', draw_circuit', current_tests') = FileValues(config_file)
               /\ status_var'.text = "Configuration loaded from"
               /\ dialog' = dialog]_vars

\* A current typed as 5 was saved, and the load of the saved file shows it
\* as 5.0.
C28_Witness ==
    /\ ops = <<"type", "save_configuration", "load_configuration: saved file">>
    /\ current_tests[1].current_var = <<"5", ".", "0">>
    /\ FormValues(fields, draw_circuit, current_tests) = FileValues(config_file)

\* C29: a load_configuration that fails part-way shows a load error and
\* leaves every field and the list of tests as they were before the load.
C29_FailedLoadChangesNothing ==
    [][ops' = Append(ops, "load_configuration: failed")
         => /\ dialog'.title = "Load Error"
            /\ UNCHANGED <<fields, draw_circuit, current_tests>>]_vars

============================================================================
